---- MODULE Spec2Model ----
(***************************************************************************)
(* DateStamp: a kiosk application that prints a label on a Zebra printer.  *)
(* The model covers the main-process services (settings, printer, logger)  *)
(* and the IPC handlers in front of them.  Every handler is one action:    *)
(* the outcome of each call it makes to the operating system (the settings *)
(* file, the lp and lpstat commands, the file system) is an input of the   *)
(* action.                                                                 *)
(***************************************************************************)
EXTENDS Integers, Sequences, FiniteSets, TLC

VARIABLES
    store,        \* content of the electron-settings file: key -> subtree
    initialized,  \* SettingsService.initializeSettings has completed
    pinStored,    \* history: the PIN last written to the store ("1234" if none)
    inputs,       \* the inputs of an operation, when they are drawn in the initial state
    files,        \* the file system: path -> content of each file that exists
    printOps,     \* the records logPrintOperation wrote during the last operation
    logFile,      \* app.log: the lines written, oldest first
    logDir,       \* the .log files of the log directory: name -> identity, age, size
    ui,           \* the renderer: dialogs shown, PIN typed, requests and timers pending
    tasks,        \* the bridge requests in progress in the main process, by request number
    updater,      \* UpdaterService and the autoUpdater it drives
    last,         \* the last operation: its name, inputs and I/O outcomes
    response      \* what the last operation returned to its caller

vars == <<store, initialized, pinStored, inputs, files, printOps, logFile,
          logDir, ui, tasks, updater, last, response>>

asyncVars == <<tasks, updater>>

settingsVars == <<store, initialized, pinStored>>

printVars == <<files, printOps>>

logVars == <<logFile, logDir>>

(***************************************************************************)
(* Bounds of the model.                                                    *)
(***************************************************************************)
\* a partial record handed to update() names at most this many fields (a
\* subtree given without fields counts as one)
MaxPartialFields == 2

(***************************************************************************)
(* Settings: src/main/services/settings.ts                                 *)
(***************************************************************************)
EmptyRec == <<>>

\* part_005:37 the current log file
CurrentLog == "app.log"

\* a log directory that holds the current log file only, just written and small
CurrentLogOnly == (CurrentLog :> [id |-> CurrentLog, age |-> 0, big |-> FALSE])

\* App.tsx:70-72 and PinDialog.tsx:17-18 the renderer after mounting: no
\* dialog shown, no PIN typed, nothing pending
ClosedUi ==
    [showPinDialog |-> FALSE, showSettings |-> FALSE, pin |-> <<>>, error |-> FALSE,
     requests |-> <<>>, timers |-> <<>>, validated |-> {}]

\* no bridge request has arrived
NoTasks == <<>>

\* updater.ts:12-20, 25-30 UpdateStatus as constructed (also the initial
\* status of the settings modal, SettingsModal.tsx:58-63); error tells
\* whether an error message is set
NewStatus ==
    [checking |-> FALSE, available |-> FALSE, downloading |-> FALSE,
     downloaded |-> FALSE, error |-> FALSE]

\* updater.ts:23-30 the UpdaterService as constructed: no window, no interval
\* (0 stands for null).  With it go the timers and the autoUpdater: the
\* interval timers that are active, the number of handlers registered for
\* each autoUpdater event, the checks autoUpdater has in progress, the state
\* of the download, and whether cleanup has run (the application quits)
NewUpdater ==
    [ mainWindow |-> "null", updateCheckInterval |-> 0, status |-> NewStatus,
      intervals |-> {}, listeners |-> 0, running |-> <<>>, download |-> "none",
      cleaned |-> FALSE ]

DEFAULT_PIN == "1234"

DefaultPrinterName == "Zebra_Technologies_ZTC_GK420d"

DefaultLabelPath == "documents/label.zpl"

DEFAULT_SETTINGS ==
    [ printer  |-> [name |-> DefaultPrinterName, isManualEntry |-> FALSE],
      security |-> [pin |-> DEFAULT_PIN],
      label    |-> [filePath |-> DefaultLabelPath, autoUpdateDate |-> TRUE],
      ui       |-> [showStatusBar |-> TRUE] ]

TopKeys == {"printer", "security", "label", "ui"}

PrinterNames == {DefaultPrinterName, "Brother_QL"}

Pins == {DEFAULT_PIN, "0000"}

LabelPaths == {DefaultLabelPath, "custom/label.zpl"}

\* the records with some of the fields f1 (values V1) and f2 (values V2)
Sub2(f1, V1, f2, V2) ==
    {EmptyRec} \cup {f1 :> a : a \in V1} \cup {f2 :> b : b \in V2}
      \cup {(f1 :> a) @@ (f2 :> b) : a \in V1, b \in V2}

Sub1(f1, V1) == {EmptyRec} \cup {f1 :> a : a \in V1}

\* AppSettings[K] with any of its fields missing
SubPartials(key) ==
    CASE key = "printer"  -> Sub2("name", PrinterNames, "isManualEntry", BOOLEAN)
      [] key = "security" -> Sub1("pin", Pins)
      [] key = "label"    -> Sub2("filePath", LabelPaths, "autoUpdateDate", BOOLEAN)
      [] key = "ui"       -> Sub1("showStatusBar", BOOLEAN)

\* AppSettings[K]: every field present
SubComplete(key) ==
    {s \in SubPartials(key) : DOMAIN s = DOMAIN DEFAULT_SETTINGS[key]}

Keys(obj) == DOMAIN obj

\* the number of fields a record names, a subtree without fields counting as one
RECURSIVE SumFields(_, _)
SumFields(rec, keys) ==
    IF keys = {} THEN 0
    ELSE LET k == CHOOSE x \in keys : TRUE
                  n == Cardinality(DOMAIN rec[k])
         IN  (IF n = 0 THEN 1 ELSE n) + SumFields(rec, keys \ {k})

LeafCount(rec) == SumFields(rec, DOMAIN rec)

\* every record shaped like a part of AppSettings: some top-level keys, each
\* with some of its fields
AllPartials ==
    UNION { { [k \in D |-> CASE k = "printer"  -> p
                             [] k = "security" -> s
                             [] k = "label"    -> l
                             [] k = "ui"       -> u] :
                p \in SubPartials("printer"), s \in SubPartials("security"),
                l \in SubPartials("label"), u \in SubPartials("ui") } :
            D \in SUBSET TopKeys }

\* Partial<AppSettings> as the renderer can send it over settings:update
Partials == {u \in AllPartials : LeafCount(u) <= MaxPartialFields}

\* store contents the program itself writes: some top-level keys (set(key,
\* value) writes one), each a complete AppSettings[K]
WrittenStores ==
    {s \in AllPartials : \A k \in DOMAIN s : DOMAIN s[k] = DOMAIN DEFAULT_SETTINGS[k]}

\* settings.ts:61-69 getAll: { ...DEFAULT_SETTINGS, ...allSettings }, the
\* defaults alone when the read throws
getAll(st, readOk) ==
    IF readOk THEN st @@ DEFAULT_SETTINGS ELSE DEFAULT_SETTINGS

\* settings.ts:71-79 get: value ?? DEFAULT_SETTINGS[key]
get(st, key, readOk) ==
    IF readOk /\ key \in DOMAIN st THEN st[key] ELSE DEFAULT_SETTINGS[key]

\* settings.ts:160-162 isObject: the values at depth 1 (AppSettings[K]) are
\* objects, the leaf fields at depth 2 are strings and booleans
isObject(depth) == depth < 2

\* a plausible slip: Object.assign without the recursive descent
RECURSIVE deepMergeShallow(_, _, _)
deepMergeShallow(target, source, depth) == source @@ target

\* settings.ts:142-158 deepMerge; depth is the nesting level of target
RECURSIVE deepMerge(_, _, _)
deepMerge(target, source, depth) ==
    [ key \in DOMAIN target \cup DOMAIN source |->
        IF key \in DOMAIN source
        THEN IF isObject(depth + 1)
             THEN IF key \notin DOMAIN target
                  THEN source[key]
                  ELSE deepMerge(target[key], source[key], depth + 1)
             ELSE source[key]
        ELSE target[key] ]

\* the PIN a store holds, DEFAULT_PIN when it holds none
PinOf(st) ==
    IF "security" \in DOMAIN st /\ "pin" \in DOMAIN st["security"]
    THEN st["security"]["pin"] ELSE DEFAULT_PIN

\* the partial record gives field f of subtree k
Named(updates, k, f) == k \in DOMAIN updates /\ f \in DOMAIN updates[k]

Ok(data) == [success |-> TRUE, data |-> data]

Err(message) == [success |-> FALSE, error |-> message]

NoResponse == [none |-> TRUE]

\* settings.ts:54-59 initializeSettings, run from the constructor
InitializeSettings(readOk, writeOk) ==
    /\ ~initialized
    /\ LET existingSettings == getAll(store, readOk)
           reset == Keys(existingSettings) = {}
       IN  /\ store' = IF reset /\ writeOk THEN DEFAULT_SETTINGS ELSE store
           /\ pinStored' = IF reset /\ writeOk THEN DEFAULT_PIN ELSE pinStored
           /\ last' = [op |-> "initializeSettings", wasEmpty |-> store = EmptyRec,
                       readOk |-> readOk, writeOk |-> writeOk]
    /\ initialized' = TRUE
    /\ response' = NoResponse
    /\ UNCHANGED <<inputs, asyncVars, ui, printVars, logVars>>

\* part_004:38-54 handleGetSettings
HandleGetSettings(readOk) ==
    /\ initialized
    /\ response' = Ok(getAll(store, readOk))
    /\ last' = [op |-> "getAll", readOk |-> readOk]
    /\ UNCHANGED <<settingsVars, inputs, asyncVars, ui, printVars, logVars>>

\* a plausible slip: the catch block logs the error and does not re-throw it
updateSwallow(st, updates, readOk, writeOk) ==
    LET merged == deepMerge(getAll(st, readOk), updates, 0)
    IN  [threw |-> FALSE, store |-> IF writeOk THEN merged ELSE st]

\* settings.ts:95-104 update: the outcome of the call and the store after it
update(st, updates, readOk, writeOk) ==
    LET current == getAll(st, readOk)
        merged  == deepMerge(current, updates, 0)
    IN  IF writeOk
        THEN [threw |-> FALSE, store |-> merged]
        ELSE [threw |-> TRUE, store |-> st]

\* settings.ts:106-113 resetToDefaults
resetToDefaults(st, writeOk) ==
    IF writeOk
    THEN [threw |-> FALSE, store |-> DEFAULT_SETTINGS]
    ELSE [threw |-> TRUE, store |-> st]

\* part_004:56-73 handleUpdateSettings
HandleUpdateSettings(updates, readOk, writeOk) ==
    /\ initialized
    /\ LET r == update(store, updates, readOk, writeOk)
       IN  /\ store' = r.store
           /\ pinStored' = IF ~r.threw /\ Named(updates, "security", "pin")
                           THEN updates["security"]["pin"] ELSE pinStored
           /\ response' = IF r.threw THEN Err("write failed")
                          ELSE Ok(getAll(r.store, TRUE))
    /\ last' = [op |-> "update", readOk |-> readOk, writeOk |-> writeOk]
    /\ UNCHANGED <<initialized, inputs, asyncVars, ui, printVars, logVars>>

\* part_004:94-110 handleResetSettings
HandleResetSettings(writeOk) ==
    /\ initialized
    /\ LET r == resetToDefaults(store, writeOk)
       IN  /\ store' = r.store
           /\ pinStored' = IF r.threw THEN pinStored ELSE DEFAULT_PIN
           /\ response' = IF r.threw THEN Err("write failed")
                          ELSE Ok(getAll(r.store, TRUE))
    /\ last' = [op |-> "reset", writeOk |-> writeOk]
    /\ UNCHANGED <<initialized, inputs, asyncVars, ui, printVars, logVars>>

\* a plausible slip: any PIN is accepted when the store holds a PIN
validatePinAny(st, pin, readOk) ==
    "pin" \in DOMAIN get(st, "security", readOk)

\* settings.ts:115-123 validatePin: security.pin === pin
validatePin(st, pin, readOk) ==
    LET security == get(st, "security", readOk)
    IN  "pin" \in DOMAIN security /\ security["pin"] = pin

\* part_004:75-92 handleValidatePin
HandleValidatePin(pin, readOk) ==
    /\ initialized
    /\ response' = Ok([isValid |-> validatePin(store, pin, readOk)])
    /\ last' = [op |-> "validatePin", pin |-> pin, readOk |-> readOk]
    /\ UNCHANGED <<settingsVars, inputs, asyncVars, ui, printVars, logVars>>

\* settings.ts:81-93 set: settings.set(key, value) replaces one top-level key
Set(key, value, writeOk, op) ==
    /\ initialized
    /\ store' = IF writeOk THEN (key :> value) @@ store ELSE store
    /\ pinStored' = IF writeOk /\ key = "security" THEN value["pin"] ELSE pinStored
    /\ response' = IF writeOk THEN NoResponse ELSE Err("write failed")
    /\ last' = [op |-> op, key |-> key, writeOk |-> writeOk]
    /\ UNCHANGED <<initialized, inputs, asyncVars, ui, printVars, logVars>>

\* settings.ts:125-130 setPrinter
SetPrinter(printerName, isManualEntry, writeOk) ==
    Set("printer", [name |-> printerName, isManualEntry |-> isManualEntry],
        writeOk, "setPrinter")

NoInputs == [none |-> TRUE]

InitSettings ==
    /\ store \in WrittenStores
    /\ initialized = FALSE
    /\ pinStored = PinOf(store)
    /\ inputs = NoInputs
    /\ files = EmptyRec
    /\ printOps = <<>>
    /\ logFile = <<>>
    /\ logDir = CurrentLogOnly
    /\ ui = ClosedUi
    /\ tasks = NoTasks
    /\ updater = NewUpdater
    /\ last = [op |-> "none"]
    /\ response = NoResponse

NextSettings ==
    \/ \E writeOk \in BOOLEAN : InitializeSettings(TRUE, writeOk)
    \/ HandleGetSettings(TRUE)
    \/ \E updates \in Partials, writeOk \in BOOLEAN :
          HandleUpdateSettings(updates, TRUE, writeOk)
    \/ \E writeOk \in BOOLEAN : HandleResetSettings(writeOk)
    \/ \E pin \in Pins : HandleValidatePin(pin, TRUE)
    \/ \E key \in TopKeys, writeOk \in BOOLEAN :
          \E value \in SubComplete(key) : Set(key, value, writeOk, "set")
    \/ \E printerName \in PrinterNames, isManualEntry \in BOOLEAN, writeOk \in BOOLEAN :
          SetPrinter(printerName, isManualEntry, writeOk)

SpecSettings == InitSettings /\ [][NextSettings]_vars

\* update(partial) as a function of the stored record and the partial record:
\* both are drawn, then settings:update is handled once
InitUpdate ==
    /\ store \in AllPartials
    /\ initialized = TRUE
    /\ pinStored = PinOf(store)
    /\ inputs \in {[updates |-> u] : u \in Partials}
    /\ files = EmptyRec
    /\ printOps = <<>>
    /\ logFile = <<>>
    /\ logDir = CurrentLogOnly
    /\ ui = ClosedUi
    /\ tasks = NoTasks
    /\ updater = NewUpdater
    /\ last = [op |-> "none"]
    /\ response = NoResponse

NextUpdate ==
    /\ last.op = "none"
    /\ \E writeOk \in BOOLEAN : HandleUpdateSettings(inputs.updates, TRUE, writeOk)

SpecUpdate == InitUpdate /\ [][NextUpdate]_vars

\* update(partial) when the read of the store inside getAll may throw
\* (settings.ts:63-67): the stored record and the partial record are drawn,
\* then settings:update is handled once
NextUpdateRead ==
    /\ last.op = "none"
    /\ \E readOk \in BOOLEAN, writeOk \in BOOLEAN :
          HandleUpdateSettings(inputs.updates, readOk, writeOk)

SpecUpdateRead == InitUpdate /\ [][NextUpdateRead]_vars

(***************************************************************************)
(* Claims about the settings store.                                        *)
(***************************************************************************)
\* field f of subtree k is the same in both records: missing in both, or
\* present in both with one value
FieldKept(before, after, k, f) ==
    /\ (f \in DOMAIN before[k]) = (f \in DOMAIN after[k])
    /\ f \in DOMAIN before[k] => before[k][f] = after[k][f]

Complete(settings) ==
    \A k \in TopKeys :
        k \in DOMAIN settings /\ DOMAIN DEFAULT_SETTINGS[k] \subseteq DOMAIN settings[k]

\* C6: reading settings always yields a complete record, whatever the
\* persisted store holds: the record getAll() returns to a handler has all six
\* fields.
C6_ReadYieldsCompleteRecord ==
    (last.op \in {"getAll", "update", "reset"} /\ response.success)
        => Complete(response.data)

\* C7: on first run (empty store) initializeSettings writes the default record.
C7_FirstRunWritesDefaults ==
    (last.op = "initializeSettings" /\ last.wasEmpty /\ last.writeOk)
        => store = DEFAULT_SETTINGS

C9_WriteFailureIsReported ==
    (last.op \in {"update", "reset"} /\ ~last.writeOk)
        => (response.success = FALSE /\ "error" \in DOMAIN response)

\* an update whose write failed has been answered
C9_Witness ==
    /\ last.op = "update"
    /\ ~last.writeOk
    /\ response.success = FALSE

\* C27: when the read of the stored record fails inside update(partial), the
\* handler answers with an error envelope, or every field the partial record
\* does not name is after the update what it was before it (it has not been
\* replaced by its default).
C27_ReadErrorKeepsSettings ==
    [][ (last'.op = "update" /\ ~last'.readOk) =>
          \/ (response'.success = FALSE /\ "error" \in DOMAIN response')
          \/ LET before == getAll(store, TRUE)
                  after  == getAll(store', TRUE)
              IN  \A k \in TopKeys : \A f \in DOMAIN DEFAULT_SETTINGS[k] :
                     ~Named(inputs.updates, k, f) => FieldKept(before, after, k, f)
      ]_vars

(***************************************************************************)
(* Printing: src/main/services/printer.ts.  Command output, file content   *)
(* and messages are sequences of tokens: a token is a piece of text the    *)
(* code tests for or copies as a whole.                                    *)
(***************************************************************************)
\* printLabel is called with 1..MaxCopies copies
MaxCopies == 2

\* printer.ts:337-342 getCurrentDate: today as DD.MM.
getCurrentDate == "15.06."

\* the pieces of text that /\d{2}\.\d{2}\./ matches
DateTokens == {"01.01.", "24.12.", getCurrentDate}

LabelContents ==
    { <<"^XA", "01.01.", "^XZ">>, <<"^XA", "^FDlabel", "^XZ">>, <<"01.01.", "24.12.">> }

\* printer.ts:272 path.join(app.getPath('temp'), 'test-label.zpl')
TempPath == "temp/test-label.zpl"

\* String.prototype.includes, for one token
Includes(s, tok) == \E i \in 1..Len(s) : s[i] = tok

RequestIdIs == "request id is"

JobIds == {"Zebra-42", "Zebra-43"}

\* what `lp` can do: exit 0 with its two output streams, or fail (execAsync
\* rejects with an error carrying a message, possibly an empty one)
LpOutcomes ==
    { [threw |-> FALSE, stdout |-> <<RequestIdIs, "Zebra-42", "(1 file(s))">>, stderr |-> <<>>, message |-> <<>>],
      [threw |-> FALSE, stdout |-> <<>>, stderr |-> <<RequestIdIs, "Zebra-43">>, message |-> <<>>],
      [threw |-> FALSE, stdout |-> <<>>, stderr |-> <<"lp:", "unable to print">>, message |-> <<>>],
      [threw |-> FALSE, stdout |-> <<RequestIdIs, "Zebra-42", "(1 file(s))">>, stderr |-> <<"lp:", "warning">>, message |-> <<>>],
      [threw |-> FALSE, stdout |-> <<>>, stderr |-> <<>>, message |-> <<>>],
      [threw |-> TRUE, stdout |-> <<>>, stderr |-> <<>>, message |-> <<"Command failed: lp">>],
      [threw |-> TRUE, stdout |-> <<>>, stderr |-> <<>>, message |-> <<>>] }

\* printer.ts:329 data.replace(/\d{2}\.\d{2}\./, currentDate): the first match
RECURSIVE ReplaceFirstDate(_, _)
ReplaceFirstDate(data, currentDate) ==
    IF data = <<>> THEN <<>>
    ELSE IF Head(data) \in DateTokens
         THEN <<currentDate>> \o Tail(data)
         ELSE <<Head(data)>> \o ReplaceFirstDate(Tail(data), currentDate)

\* printer.ts:325-335 updateLabelDate: readFileSync throws when the file is
\* missing, and the error is re-thrown
updateLabelDate(fs, labelPath) ==
    IF labelPath \notin DOMAIN fs
    THEN [threw |-> TRUE, message |-> <<"ENOENT: no such file or directory, open", labelPath>>,
          files |-> fs]
    ELSE [threw |-> FALSE, message |-> <<>>,
          files |-> (labelPath :> ReplaceFirstDate(fs[labelPath], getCurrentDate)) @@ fs]

\* part_005:248-266 logPrintOperation: one record, at error level when an
\* error text is given
logPrintOperation(printer, copies, success, error) ==
    [ level   |-> IF error # <<>> THEN "ERROR" ELSE "INFO",
      message |-> IF error # <<>> THEN "Print operation failed"
                  ELSE "Print operation completed",
      printer |-> printer, copies |-> copies, success |-> success, error |-> error ]

\* printer.ts:241-242 stdout.match(/request id is ([\w-]+)/): the matches
JobIdMatches(stdout) ==
    {i \in 1..(Len(stdout) - 1) : stdout[i] = RequestIdIs /\ stdout[i + 1] \in JobIds}

\* printer.ts:231 (and 280): a non-empty error stream without the acceptance phrase
StderrIsFailure(stderr) == stderr # <<>> /\ ~Includes(stderr, RequestIdIs)

\* printer.ts:203-262 printLabel: the PrintResult, the records logged through
\* logPrintOperation, the file system afterwards and the lp command run
printLabel(st, fs, copies, lp) ==
    LET printerName   == get(st, "printer", TRUE)["name"]
        labelSettings == get(st, "label", TRUE)
        labelPath     == labelSettings["filePath"]
        dated == IF labelSettings["autoUpdateDate"]
                 THEN updateLabelDate(fs, labelPath)
                 ELSE [threw |-> FALSE, message |-> <<>>, files |-> fs]
        command == [copies |-> copies, printer |-> printerName, path |-> labelPath]
        caught(message, fs2, cmds) ==
            [ result |-> [success |-> FALSE,
                          message |-> IF message # <<>> THEN message
                                      ELSE <<"Unknown print error">>,
                          error |-> "PRINT_ERROR"],
              ops |-> <<logPrintOperation(printerName, copies, FALSE, message)>>,
              files |-> fs2, commands |-> cmds ]
    IN  IF dated.threw THEN caught(dated.message, dated.files, <<>>)
        ELSE IF labelPath \notin DOMAIN dated.files
        THEN [ result |-> [success |-> FALSE,
                           message |-> <<"Label file not found:", labelPath>>,
                           error |-> "FILE_NOT_FOUND"],
               ops |-> <<logPrintOperation(printerName, copies, FALSE, <<"FILE_NOT_FOUND">>)>>,
               files |-> dated.files, commands |-> <<>> ]
        ELSE IF lp.threw THEN caught(lp.message, dated.files, <<command>>)
        ELSE IF StderrIsFailure(lp.stderr)
        THEN [ result |-> [success |-> FALSE,
                           message |-> <<"Print failed:">> \o lp.stderr,
                           error |-> "PRINT_FAILED"],
               ops |-> <<logPrintOperation(printerName, copies, FALSE, lp.stderr)>>,
               files |-> dated.files, commands |-> <<command>> ]
        ELSE LET matches == JobIdMatches(lp.stdout)
                 done == [success |-> TRUE,
                          message |-> <<"Printed", ToString(copies), "label(s) successfully">>]
             IN  [ result |-> IF matches = {} THEN done
                              ELSE done @@ [jobId |-> lp.stdout[(CHOOSE i \in matches :
                                                  \A j \in matches : i <= j) + 1]],
                   ops |-> <<logPrintOperation(printerName, copies, TRUE, <<>>)>>,
                   files |-> dated.files, commands |-> <<command>> ]

\* printer.ts:266-270 the test label
TestContent(printerName) ==
    <<"^XA", "Test Print", "toLocaleString()", "Printer:", printerName, "^XZ">>

\* fs.unlinkSync
Unlink(fs, path) == [p \in DOMAIN fs \ {path} |-> fs[p]]

\* printer.ts:264-300 testPrint
testPrint(fs, printerName, lp) ==
    LET written == (TempPath :> TestContent(printerName)) @@ fs
        command == [copies |-> 1, printer |-> printerName, path |-> TempPath]
    IN  IF lp.threw
        THEN [ result |-> [success |-> FALSE,
                           message |-> IF lp.message # <<>> THEN lp.message
                                       ELSE <<"Test print failed">>,
                           error |-> "TEST_PRINT_ERROR"],
               ops |-> <<>>, files |-> written, commands |-> <<command>> ]
        ELSE IF StderrIsFailure(lp.stderr)
        THEN [ result |-> [success |-> FALSE,
                           message |-> <<"Test print failed:">> \o lp.stderr,
                           error |-> "TEST_PRINT_FAILED"],
               ops |-> <<>>, files |-> Unlink(written, TempPath), commands |-> <<command>> ]
        ELSE [ result |-> [success |-> TRUE, message |-> <<"Test print sent successfully">>],
               ops |-> <<>>, files |-> Unlink(written, TempPath), commands |-> <<command>> ]

\* printer-handler.ts:79-83 {success: result.success, data: result, error: result.error}
PrintEnvelope(result) ==
    IF "error" \in DOMAIN result
    THEN [success |-> result.success, data |-> result, error |-> result.error]
    ELSE [success |-> result.success, data |-> result]

\* printer-handler.ts:73-91 handlePrint
HandlePrint(copies, lp) ==
    /\ initialized
    /\ LET r == printLabel(store, files, copies, lp)
           label == get(store, "label", TRUE)
       IN  /\ files' = r.files
           /\ printOps' = r.ops
           /\ response' = PrintEnvelope(r.result)
           /\ last' = [op |-> "printLabel", copies |-> copies, lp |-> lp,
                       labelMissing |-> label["filePath"] \notin DOMAIN files,
                       autoUpdateDate |-> label["autoUpdateDate"],
                       commands |-> r.commands]
    /\ UNCHANGED <<settingsVars, inputs, asyncVars, ui, logVars>>

\* the legacy reply without the prefix of a failure
legacyReplyPlain(result) == result.message

\* printer-handler.ts:101-107 the text replied on the legacy channel
legacyReply(result) ==
    IF result.success THEN result.message ELSE <<"Error:">> \o result.message

\* printer-handler.ts:93-112 handleLegacyPrint ('ipc-example'): printLabel is
\* called and one text is sent back with event.reply
HandleLegacyPrint(copies, lp) ==
    /\ initialized
    /\ LET r == printLabel(store, files, copies, lp)
       IN  /\ files' = r.files
           /\ printOps' = r.ops
           /\ response' = [replies |-> <<legacyReply(r.result)>>]
           /\ last' = [op |-> "legacyPrint", copies |-> copies, lp |-> lp,
                       commands |-> r.commands]
    /\ UNCHANGED <<settingsVars, inputs, asyncVars, ui, logVars>>

\* printer-handler.ts:114-132 handleTestPrint
HandleTestPrint(printerName, lp) ==
    /\ initialized
    /\ LET r == testPrint(files, printerName, lp)
       IN  /\ files' = r.files
           /\ printOps' = r.ops
           /\ response' = PrintEnvelope(r.result)
           /\ last' = [op |-> "testPrint", printerName |-> printerName, lp |-> lp,
                       commands |-> r.commands]
    /\ UNCHANGED <<settingsVars, inputs, asyncVars, ui, logVars>>

\* printer.ts:354-364 cancelAllJobs: whether `cancel -a` succeeded; a failure
\* is caught and answered with false
cancelAllJobs(cancelOk) == cancelOk

\* printer-handler.ts:172-189 handleCancelJobs
HandleCancelJobs(cancelOk) ==
    /\ initialized
    /\ LET result == cancelAllJobs(cancelOk)
       IN  response' = [success |-> result, data |-> [cancelled |-> result]]
    /\ last' = [op |-> "cancelJobs", cancelOk |-> cancelOk]
    /\ UNCHANGED <<settingsVars, inputs, asyncVars, ui, printVars, logVars>>

\* the settings that printing reads
PrintStores ==
    {s \in WrittenStores :
        /\ DOMAIN s \subseteq {"printer", "label"}
        /\ "printer" \in DOMAIN s => s["printer"]["isManualEntry"] = FALSE}

\* the label files: each configured path has a file or none
FileSystems == UNION { [D -> LabelContents] : D \in SUBSET LabelPaths }

InitPrint ==
    /\ store \in PrintStores
    /\ initialized = TRUE
    /\ pinStored = PinOf(store)
    /\ inputs = NoInputs
    /\ files \in FileSystems
    /\ printOps = <<>>
    /\ logFile = <<>>
    /\ logDir = CurrentLogOnly
    /\ ui = ClosedUi
    /\ tasks = NoTasks
    /\ updater = NewUpdater
    /\ last = [op |-> "none"]
    /\ response = NoResponse

NextPrint ==
    \/ \E copies \in 1..MaxCopies, lp \in LpOutcomes : HandlePrint(copies, lp)
    \/ \E printerName \in PrinterNames, lp \in LpOutcomes : HandleTestPrint(printerName, lp)
    \/ \E cancelOk \in BOOLEAN : HandleCancelJobs(cancelOk)

SpecPrint == InitPrint /\ [][NextPrint]_vars

\* the two print channels of the main window: printer:print and the legacy
\* channel
NextLegacy ==
    \/ \E copies \in 1..MaxCopies, lp \in LpOutcomes : HandlePrint(copies, lp)
    \/ \E copies \in 1..MaxCopies, lp \in LpOutcomes : HandleLegacyPrint(copies, lp)

SpecLegacy == InitPrint /\ [][NextLegacy]_vars

(***************************************************************************)
(* Claims about printing.                                                  *)
(***************************************************************************)
\* C1: a printLabel call made while the configured label file does not exist
\* returns success = false with error FILE_NOT_FOUND and logs exactly one
\* print-operation record, with success = false, for every copy count and
\* both values of label.autoUpdateDate.
C1_MissingLabelIsFileNotFound ==
    (last.op = "printLabel" /\ last.labelMissing) =>
        /\ response.data.success = FALSE
        /\ response.data.error = "FILE_NOT_FOUND"
        /\ Len(printOps) = 1
        /\ printOps[1].success = FALSE

\* C2: every completed printLabel or testPrint call has logged a
\* print-operation record whose success flag is that of the PrintResult.
C2_EveryPrintIsLogged ==
    last.op \in {"printLabel", "testPrint"} =>
        /\ Len(printOps) >= 1
        /\ \A i \in 1..Len(printOps) : printOps[i].success = response.data.success

\* C16: the legacy print channel has the effect of printer:print: for the
\* same settings, files and copy count it calls printLabel(copies) once (the
\* same command is run, the same record logged, the same files left), and it
\* sends exactly one reply, which starts with 'Error: ' exactly when
\* printer:print would answer success = false.
C16_LegacyPrintEquivalent ==
    [][ last'.op = "legacyPrint" =>
          LET r == printLabel(store, files, last'.copies, last'.lp)
          IN  /\ files' = r.files /\ printOps' = r.ops /\ last'.commands = r.commands
              /\ Len(last'.commands) <= 1
              /\ Len(response'.replies) = 1
              /\ (Head(response'.replies[1]) = "Error:") = ~PrintEnvelope(r.result).success
      ]_vars

\* C16 witness: a legacy print whose lp command reported on its error stream
\* was answered with one reply that starts with 'Error: '
C16_Witness ==
    /\ last.op = "legacyPrint"
    /\ Len(last.commands) = 1
    /\ StderrIsFailure(last.lp.stderr)
    /\ Len(response.replies) = 1
    /\ Head(response.replies[1]) = "Error:"

\* C17: after every testPrint call the temporary label file no longer
\* exists, whether lp succeeded, reported on its error stream or failed with
\* an exception.
C17_TempFileRemoved ==
    last.op = "testPrint" => TempPath \notin DOMAIN files

\* C15: every response of a bridge handler is {success: true, data} with
\* data, or {success: false, error} with an error message, and no handler
\* throws, whatever the service does.
C15_ResponseShapes ==
    last.op \notin {"none", "legacyPrint"} =>
        /\ "success" \in DOMAIN response
        /\ response.success => "data" \in DOMAIN response
        /\ ~response.success => "error" \in DOMAIN response

(***************************************************************************)
(* Log store: LoggerService (part_005) and LoggerHandler (part_003).       *)
(* A line of app.log is [timestamp, level, message] when it has the format *)
(* '[timestamp] [LEVEL] text', and [text] otherwise (the further lines of  *)
(* a record that spans lines).  The timestamp of a line is its position in *)
(* the file, which tells the entries apart and gives their age.            *)
(***************************************************************************)
\* app.log holds at most this many lines
MaxLogLines == 5

\* getLogs is called with a limit of 0..MaxLimit, or with none
MaxLimit == 3

\* part_005:148 limit: number = 1000
DefaultLimit == 1000

FileLevels == {"ERROR", "INFO"}

\* the level argument of getLogs; "" stands for none given
LevelArgs == {"", "ERROR", "error", "INFO"}

\* String.prototype.toUpperCase on the level names
toUpperCase(level) ==
    CASE level = "error" -> "ERROR"
      [] level = "info"  -> "INFO"
      [] OTHER           -> level

\* the lines that may follow the first line of a record
Continuations == {<<>>, <<[text |-> "  at stack"]>>, <<[text |-> ""]>>}

\* a write to the current log file: the file is created when it is missing
\* (a new file, not over the size threshold) and its modification time is now
Touch(dir) ==
    IF CurrentLog \in DOMAIN dir
    THEN [dir EXCEPT ![CurrentLog].age = 0]
    ELSE (CurrentLog :> [id |-> "new", age |-> 0, big |-> FALSE]) @@ dir

\* part_005:114-136 info / warn / error: one formatted line (and the further
\* lines of its context) appended to the file
AppendLine(file, level, message, more) ==
    file \o <<[timestamp |-> Len(file) + 1, level |-> level, message |-> message]>> \o more

\* Array.prototype.slice(start)
Slice(seq, start) ==
    LET n == Len(seq)
        from == IF start < 0 THEN (IF n + start > 0 THEN n + start ELSE 0)
                ELSE (IF start < n THEN start ELSE n)
    IN  SubSeq(seq, from + 1, n)

\* Array.prototype.reverse
RECURSIVE Reverse(_)
Reverse(seq) == IF seq = <<>> THEN <<>> ELSE Reverse(Tail(seq)) \o <<Head(seq)>>

\* part_005:158 filter((line) => line.trim())
NonBlank(line) == "level" \in DOMAIN line \/ line.text # ""

\* part_005:164 line.match(/\[([\d-\s:.]+)\]\s*\[(\w+)\]\s*(.+)/)
Matches(line) == "level" \in DOMAIN line

\* part_005:147-182 getLogs
getLogs(file, limit, level) ==
    LET lines == SelectSeq(file, NonBlank)
        levelFilter == toUpperCase(level)
        Keep(line) == Matches(line) /\ (levelFilter = "" \/ line.level = levelFilter)
    IN  Reverse(SelectSeq(Slice(lines, 0 - limit), Keep))

\* part_005:221-232 getLogSize, in lines
getLogSize(file) == Len(file)

\* a logger call of the application
Log(level, more) ==
    /\ Len(logFile) + 1 + Len(more) <= MaxLogLines
    /\ logFile' = AppendLine(logFile, level, "entry", more)
    /\ logDir' = Touch(logDir)
    /\ last' = [op |-> "log", level |-> level]
    /\ response' = NoResponse
    /\ UNCHANGED <<settingsVars, inputs, asyncVars, ui, printVars>>

\* part_003:107-131 handleGetLogs
HandleGetLogs(limit, level) ==
    /\ response' = Ok([logs |-> getLogs(logFile, limit, level), size |-> getLogSize(logFile)])
    /\ last' = [op |-> "getLogs", limit |-> limit, level |-> level]
    /\ UNCHANGED <<settingsVars, inputs, asyncVars, ui, printVars, logVars>>

\* part_005:184-197 clearLogs: the file is truncated and 'Logs cleared' is
\* logged; when the write fails the error is logged and false returned
clearLogs(file, writeOk) ==
    IF writeOk
    THEN [ok |-> TRUE, file |-> AppendLine(<<>>, "INFO", "Logs cleared", <<>>)]
    ELSE [ok |-> FALSE, file |-> AppendLine(file, "ERROR", "Error clearing logs", <<>>)]

\* part_003:133-157 handleClearLogs
HandleClearLogs(writeOk) ==
    /\ writeOk \/ Len(logFile) < MaxLogLines
    /\ LET r == clearLogs(logFile, writeOk)
       IN  /\ logFile' = r.file
           /\ logDir' = Touch(logDir)
           /\ response' = IF r.ok THEN Ok([message |-> "Logs cleared successfully"])
                          ELSE Err("Failed to clear logs")
    /\ last' = [op |-> "clearLogs", writeOk |-> writeOk]
    /\ UNCHANGED <<settingsVars, inputs, asyncVars, ui, printVars>>

InitLogs ==
    /\ store = EmptyRec
    /\ initialized = TRUE
    /\ pinStored = DEFAULT_PIN
    /\ inputs = NoInputs
    /\ files = EmptyRec
    /\ printOps = <<>>
    /\ logFile = <<>>
    /\ logDir = CurrentLogOnly
    /\ ui = ClosedUi
    /\ tasks = NoTasks
    /\ updater = NewUpdater
    /\ last = [op |-> "none"]
    /\ response = NoResponse

Limits == (0..MaxLimit) \cup {DefaultLimit}

NextLogs ==
    \/ \E level \in FileLevels, more \in Continuations : Log(level, more)
    \/ \E limit \in Limits, level \in LevelArgs : HandleGetLogs(limit, level)
    \/ \E writeOk \in BOOLEAN : HandleClearLogs(writeOk)

SpecLogs == InitLogs /\ [][NextLogs]_vars

(***************************************************************************)
(* Log rotation: LoggerService.setupLogRotation (part_005:62-111).  A file *)
(* of the log directory is [id, age, big]: id tells the files apart (the   *)
(* name a file had when the check started, "new" for a file created        *)
(* since), age is the days since its last modification, and big says that  *)
(* its size is over maxLogSize.                                             *)
(***************************************************************************)
\* part_005:16 maxLogAge, in days
maxLogAge == 7

\* part_005:82-83 app-${timestamp}.log, for today's date
ArchiveName == "app-today.log"

\* the .log files a log directory may hold
LogNames == {CurrentLog, ArchiveName, "app-earlier.log", "other.log"}

Ages == {0, 1, maxLogAge, maxLogAge + 1, maxLogAge + 2}

\* part_005:70-78 the .log files with their stats, most recently modified
\* first; the list is read once and not refreshed by what the check does
RECURSIVE SortByMtime(_, _)
SortByMtime(dir, names) ==
    IF names = {} THEN <<>>
    ELSE LET n == CHOOSE a \in names : \A b \in names : dir[a].age <= dir[b].age
         IN  <<[name |-> n, stats |-> dir[n]]>> \o SortByMtime(dir, names \ {n})

\* fs.renameSync(from, to): a file at `to` is replaced; the modification
\* time goes with the file
Rename(dir, from, to) ==
    [n \in (DOMAIN dir \ {from}) \cup {to} |-> IF n = to THEN dir[from] ELSE dir[n]]

\* this.info(message) during the check: a line written to the current log file
WriteInfo(state, message) ==
    [dir |-> Touch(state.dir), file |-> AppendLine(state.file, "INFO", message, <<>>),
     renamed |-> state.renamed, threw |-> state.threw]

\* part_005:81-89 the most recently modified file is archived when it is
\* over the size threshold
ArchiveLargest(state, listed) ==
    IF Len(listed) > 0 /\ listed[1].stats.big
    THEN WriteInfo([dir |-> Rename(state.dir, listed[1].name, ArchiveName),
                    file |-> IF listed[1].name = CurrentLog THEN <<>> ELSE state.file,
                    renamed |-> <<listed[1].name>>, threw |-> FALSE],
                   "Log file rotated")
    ELSE state

\* part_005:95-100 the files of the list older than maxLogAge days are
\* unlinked under the name they were listed with; unlinkSync throws when no
\* file has that name, and the catch of lines 101-103 ends the check
RECURSIVE RemoveOld(_, _)
RemoveOld(state, listed) ==
    IF listed = <<>> THEN state
    ELSE IF Head(listed).stats.age <= maxLogAge THEN RemoveOld(state, Tail(listed))
    ELSE IF Head(listed).name \notin DOMAIN state.dir THEN [state EXCEPT !.threw = TRUE]
    ELSE RemoveOld(WriteInfo([dir |-> Unlink(state.dir, Head(listed).name),
                              file |-> IF Head(listed).name = CurrentLog THEN <<>>
                                       ELSE state.file,
                              renamed |-> state.renamed, threw |-> FALSE],
                             "Old log file removed"),
                   Tail(listed))

\* part_005:64-104 checkRotation
checkRotation(dir, file) ==
    LET listed == SortByMtime(dir, DOMAIN dir)
    IN  RemoveOld(ArchiveLargest([dir |-> dir, file |-> file, renamed |-> <<>>,
                                  threw |-> FALSE], listed),
                  listed)

\* part_005:106-110 the check at startup and on the daily timer
CheckRotation ==
    /\ LET r == checkRotation(logDir, logFile)
       IN  /\ logDir' = r.dir
           /\ logFile' = r.file
           /\ last' = [op |-> "checkRotation", before |-> logDir, renamed |-> r.renamed,
                       threw |-> r.threw]
    /\ response' = NoResponse
    /\ UNCHANGED <<settingsVars, inputs, asyncVars, ui, printVars>>

\* the log directories: the current log file exists (the logger creates it
\* when it resolves its path) and no two files were modified on the same day
LogDirs ==
    {dir \in UNION { [D -> [age : Ages, big : BOOLEAN]] : D \in SUBSET LogNames } :
        /\ CurrentLog \in DOMAIN dir
        /\ \A a, b \in DOMAIN dir : a # b => dir[a].age # dir[b].age}

\* a rotation check as a function of the log directory: the directory is
\* drawn, the check runs once, and the application logs after it
InitRotate ==
    /\ store = EmptyRec
    /\ initialized = TRUE
    /\ pinStored = DEFAULT_PIN
    /\ inputs = NoInputs
    /\ files = EmptyRec
    /\ printOps = <<>>
    /\ logFile \in {<<>>, AppendLine(<<>>, "INFO", "old entry", <<>>)}
    /\ logDir \in {[n \in DOMAIN dir |-> [id |-> n, age |-> dir[n].age, big |-> dir[n].big]] :
                      dir \in LogDirs}
    /\ ui = ClosedUi
    /\ tasks = NoTasks
    /\ updater = NewUpdater
    /\ last = [op |-> "none"]
    /\ response = NoResponse

NextRotate ==
    \/ last.op = "none" /\ CheckRotation
    \/ last.op = "checkRotation" /\ \E level \in FileLevels : Log(level, <<>>)

SpecRotate == InitRotate /\ [][NextRotate]_vars

(***************************************************************************)
(* Claims about the log store.                                             *)
(***************************************************************************)
\* the entries of the file that have the level, oldest first
EntriesOfLevel(file, level) ==
    LET Has(line) == Matches(line) /\ line.level = toUpperCase(level)
    IN  SelectSeq(file, Has)

\* C10: getLogs(limit, level) returns exactly the entries of that level,
\* most recent first, whenever the file holds at most `limit` entries of that
\* level, however many other entries are interleaved with them.
C10_LevelEntriesAllReturned ==
    (/\ last.op = "getLogs"
     /\ last.level # ""
     /\ Len(EntriesOfLevel(logFile, last.level)) <= last.limit)
        => response.data.logs = Reverse(EntriesOfLevel(logFile, last.level))

\* the last n lines of a list of lines (all of them when there are fewer)
LastLines(lines, n) ==
    SubSeq(lines, Len(lines) - (IF n < Len(lines) THEN n ELSE Len(lines)) + 1, Len(lines))

\* C11: for every limit >= 0, 0 included, and every log file, getLogs(limit)
\* returns at most `limit` entries: the entries among the last `limit` lines
\* of the file, in reverse of their order in the file.
C11_AtMostLimitEntries ==
    (last.op = "getLogs" /\ last.level = "") =>
        /\ Len(response.data.logs) <= last.limit
        /\ response.data.logs =
              Reverse(SelectSeq(LastLines(SelectSeq(logFile, NonBlank), last.limit), Matches))

\* C12: after clearLogs has returned true the log file is empty: its size is
\* 0 and a getLogs call that follows at once returns no entries.
C12_ClearedFileIsEmpty ==
    (last.op = "clearLogs" /\ response.success) =>
        /\ getLogSize(logFile) = 0
        /\ getLogs(logFile, DefaultLimit, "") = <<>>

\* the file that had name n when the check started is in the directory
StillExists(n) == \E m \in DOMAIN logDir : logDir[m].id = n

\* C13: after a rotation check every .log file that was older than the
\* retention window of maxLogAge days when the check started is absent, under
\* its old name and under any archive name, and every file within the window
\* still exists, for every set of files.
C13_RetentionEnforced ==
    last.op = "checkRotation" =>
        \A n \in DOMAIN last.before :
            StillExists(n) = (last.before[n].age <= maxLogAge)

\* C14: a rotation check that runs while app.log is over the size threshold
\* renames that file to the dated archive, and the log write that follows
\* finds a new current file holding only entries written after the rotation;
\* the check renames the current log file and no other file, whatever other
\* .log files the directory holds.
C14_CurrentLogIsRotated ==
    [][ /\ last'.op = "checkRotation" =>
              /\ \A i \in 1..Len(last'.renamed) : last'.renamed[i] = CurrentLog
              /\ logDir[CurrentLog].big => last'.renamed = <<CurrentLog>>
        /\ (last.op = "checkRotation" /\ last.before[CurrentLog].big /\ last'.op = "log") =>
              /\ logDir'[CurrentLog].id = "new"
              /\ \A i \in 1..Len(logFile') : logFile'[i].message # "old entry"
      ]_vars

\* the current log file holds a line with this message
Logged(message) == \E i \in 1..Len(logFile) : logFile[i].message = message

\* C28: a rotation check destroys no log content younger than the retention
\* window: every file that was at most maxLogAge days old when the check
\* started still exists after it (the rename has not replaced an archive of
\* today's date), and the line written to the new current file when the check
\* renamed a file is still in the current file when the check ends (the
\* deletion pass has not removed the file created during the check).
C28_YoungContentSurvives ==
    last.op = "checkRotation" =>
        /\ \A n \in DOMAIN last.before :
               last.before[n].age <= maxLogAge => StillExists(n)
        /\ last.renamed = <<CurrentLog>> => Logged("Log file rotated")

(***************************************************************************)
(* Printer discovery: printer.ts:36-201 listPrinters.  The output of a     *)
(* command is a sequence of tokens, and that of `lpstat -p` a sequence of  *)
(* lines of tokens.  A quotation mark is a token of its own, named by its  *)
(* code point; the token "" is the empty text between two spaces.          *)
(***************************************************************************)
\* `lpstat -p` prints at most this many lines
MaxPrinterLines == 2

\* the text of a sequence of tokens
RECURSIVE Join(_)
Join(s) == IF s = <<>> THEN "" ELSE Head(s) \o Join(Tail(s))

\* String.prototype.indexOf for one token: its first position, 0 when absent
IndexOf(s, tok) ==
    IF Includes(s, tok) THEN CHOOSE i \in 1..Len(s) : s[i] = tok /\ \A j \in 1..(i - 1) : s[j] # tok
    ELSE 0

\* String.prototype.startsWith(word + ' ')
StartsWith(line, word) == Len(line) >= 2 /\ line[1] = word

\* printer.ts:90-91 the status of an English line
EnglishStatus(line) ==
    IF Includes(line, "is idle") THEN "idle"
    ELSE IF Includes(line, "is printing") THEN "printing" ELSE "unknown"

\* printer.ts:113-115 (and 135-137) the status of a German line
GermanStatus(line) ==
    IF Includes(line, "ist inaktiv") THEN "idle"
    ELSE IF Includes(line, "druckt") THEN "printing"
    ELSE IF Includes(line, "ist offline") THEN "offline" ELSE "unknown"

\* printer.ts:103-104 the two quotation marks looked for first: U+201E, and
\* the ASCII quotation mark U+0022
openQuote == "U+201E"

closeQuote == "U+0022"

\* printer.ts:122-128 the pairs of marks of the fallback patterns; each
\* pattern is open, one or more characters that are not close, close
patterns ==
    << [open |-> "U+0022", close |-> "U+0022"],
       [open |-> "U+0027", close |-> "U+0027"],
       [open |-> "U+201E", close |-> "U+0022"],
       [open |-> "U+00AB", close |-> "U+00BB"],
       [open |-> "U+201A", close |-> "U+0027"] >>

\* String.prototype.match for one of the patterns: the captured text of the
\* leftmost match, "" when there is none
PatternMatch(s, pattern) ==
    LET CloseAfter(i) == {j \in (i + 1)..Len(s) : s[j] = pattern.close}
        FirstClose(i) == CHOOSE j \in CloseAfter(i) : \A k \in CloseAfter(i) : j <= k
        Starts == {i \in 1..Len(s) :
                      /\ s[i] = pattern.open
                      /\ CloseAfter(i) # {}
                      /\ Join(SubSeq(s, i + 1, FirstClose(i) - 1)) # ""}
    IN  IF Starts = {} THEN ""
        ELSE LET i == CHOOSE a \in Starts : \A b \in Starts : a <= b
             IN  Join(SubSeq(s, i + 1, FirstClose(i) - 1))

\* printer.ts:131-142 the first pattern, from index n on, that matches
RECURSIVE FirstPattern(_, _)
FirstPattern(s, n) ==
    IF n > Len(patterns) THEN ""
    ELSE IF PatternMatch(s, patterns[n]) # "" THEN PatternMatch(s, patterns[n])
    ELSE FirstPattern(s, n + 1)

\* printer.ts:98-147 the name on a German line
GermanName(line) ==
    LET afterDrucker == Tail(line)
        openIndex  == IndexOf(afterDrucker, openQuote)
        closeIndex == IndexOf(afterDrucker, closeQuote)
    IN  IF openIndex # 0 /\ closeIndex # 0 /\ closeIndex > openIndex
        THEN Join(SubSeq(afterDrucker, openIndex + 1, closeIndex - 1))
        ELSE FirstPattern(afterDrucker, 1)

\* printer.ts:82-157 one line of `lpstat -p`: the printers it adds
ParseLine(line) ==
    IF StartsWith(line, "printer")
    THEN IF line[2] # ""
         THEN <<[name |-> line[2], status |-> EnglishStatus(line), isDefault |-> FALSE]>>
         ELSE <<>>
    ELSE IF StartsWith(line, "Drucker")
    THEN IF GermanName(line) # ""
         THEN <<[name |-> GermanName(line),
                 status |-> GermanStatus(line),
                 isDefault |-> FALSE]>>
         ELSE <<>>
    ELSE <<>>

\* printer.ts:80-158 the loop over the lines
RECURSIVE ParseLines(_)
ParseLines(lines) ==
    IF lines = <<>> THEN <<>> ELSE ParseLine(Head(lines)) \o ParseLines(Tail(lines))

\* printer.ts:67-73 the markers of the default printer, in the order tried
DefaultMarkers == <<"system default destination:", "Standardzielort:", "Standardziel:">>

\* output.split(marker)[1].trim(): the text after the first marker, up to the next
AfterMarker(output, marker) ==
    LET rest == SubSeq(output, IndexOf(output, marker) + 1, Len(output))
        next == IndexOf(rest, marker)
    IN  Join(IF next = 0 THEN rest ELSE SubSeq(rest, 1, next - 1))

\* printer.ts:63-76 the default printer named by the output of `lpstat -d`
RECURSIVE ParseDefault(_, _)
ParseDefault(defaultOutput, n) ==
    IF n > Len(DefaultMarkers) THEN ""
    ELSE IF Includes(defaultOutput, DefaultMarkers[n])
    THEN AfterMarker(defaultOutput, DefaultMarkers[n])
    ELSE ParseDefault(defaultOutput, n + 1)

\* printer.ts:60 split('\n').filter(line => line.trim())
NonBlankLine(line) == Join(line) # ""

\* printer.ts:41-162 the printers found by the two lpstat commands; a failed
\* command is caught and leaves its output empty
Detected(p, d) ==
    LET printersOutput == IF p.failed THEN <<>> ELSE p.stdout
        defaultOutput  == IF d.failed THEN <<>> ELSE d.stdout
        defaultPrinter == ParseDefault(defaultOutput, 1)
        printers == ParseLines(SelectSeq(printersOutput, NonBlankLine))
    IN  [i \in 1..Len(printers) |->
            [printers[i] EXCEPT !.isDefault = (printers[i].name = defaultPrinter)]]

\* printer.ts:168-179 the probe for the default Zebra printer
ZebraProbe(z) ==
    IF ~z.failed /\ z.stdout # <<>> /\ ~Includes(z.stdout, "does not exist")
    THEN <<[name |-> DefaultPrinterName,
            status |-> IF Includes(z.stdout, "is idle") THEN "idle" ELSE "unknown",
            isDefault |-> TRUE]>>
    ELSE <<>>

\* printer.ts:182-186
NoPrintersDetected == [name |-> "No printers detected", status |-> "unknown", isDefault |-> FALSE]

\* printer.ts:195-199
ErrorDetectingPrinters == [name |-> "Error detecting printers", status |-> "error", isDefault |-> FALSE]

\* listPrinters without the entry added at printer.ts:181-187
listPrintersNoSentinel(p, d, z) ==
    IF Detected(p, d) # <<>> THEN Detected(p, d) ELSE ZebraProbe(z)

\* printer.ts:36-201 listPrinters.  Each execAsync has a catch of its own and
\* the other statements of the try block handle strings, so no exception
\* reaches the catch of lines 192-200.
listPrinters(p, d, z) ==
    IF Detected(p, d) # <<>> THEN Detected(p, d)
    ELSE IF ZebraProbe(z) # <<>> THEN ZebraProbe(z)
    ELSE <<NoPrintersDetected>>

\* printer-handler.ts:55-71 handleListPrinters
HandleListPrinters(p, d, z) ==
    /\ response' = Ok(listPrinters(p, d, z))
    /\ last' = [op |-> "listPrinters",
                commands |-> IF Detected(p, d) # <<>> THEN <<"lpstat -p", "lpstat -d">>
                             ELSE <<"lpstat -p", "lpstat -d", "lpstat -p Zebra">>]
    /\ UNCHANGED <<settingsVars, inputs, asyncVars, ui, printVars, logVars>>

\* printer.ts:312-323 getPrinterStatus: the status read from the output of
\* `lpstat -p "name"`, 'error' when the command fails
getPrinterStatus(out) ==
    IF out.failed THEN "error"
    ELSE IF Includes(out.stdout, "is idle") THEN "idle"
    ELSE IF Includes(out.stdout, "is printing") THEN "printing"
    ELSE IF Includes(out.stdout, "disabled") THEN "disabled"
    ELSE "unknown"

\* printer-handler.ts:134-151 handleGetPrinterStatus
HandleGetPrinterStatus(out) ==
    /\ response' = Ok([status |-> getPrinterStatus(out)])
    /\ last' = [op |-> "getPrinterStatus", failed |-> out.failed, line |-> out.stdout]
    /\ UNCHANGED <<settingsVars, inputs, asyncVars, ui, printVars, logVars>>

\* lines that `lpstat -p` prints, in an English and in a German locale
PrinterLines ==
    { <<"printer", "HP_LaserJet", "is idle", "enabled since">>,
      <<"printer", DefaultPrinterName, "now printing", "Zebra-42">>,
      <<"printer", "", "is idle">>,
      <<"Drucker", "U+201E", "Zebra_GK420d", "U+201C", "ist inaktiv">>,
      <<"Drucker", "U+201E", "Zebra_GK420d", "U+0022", "druckt">>,
      <<"Drucker", "U+0022", "Brother_QL", "U+0022", "ist offline">>,
      <<"Drucker", "U+00AB", "HP_LaserJet", "U+00BB", "ist inaktiv">>,
      <<"printer", "Brother_QL", "disabled", "since Jan 01">>,
      <<"Paused">>,
      <<>> }

LinesUpTo(n) == UNION { [1..k -> PrinterLines] : k \in 0..n }

\* what `lpstat -p` can do
ListOutcomes ==
    {[failed |-> TRUE, stdout |-> <<>>]}
        \cup {[failed |-> FALSE, stdout |-> ls] : ls \in LinesUpTo(MaxPrinterLines)}

\* what `lpstat -d` can do
DefaultOutcomes ==
    { [failed |-> TRUE, stdout |-> <<>>],
      [failed |-> FALSE, stdout |-> <<"no system default destination">>],
      [failed |-> FALSE, stdout |-> <<"system default destination:", "HP_LaserJet">>],
      [failed |-> FALSE, stdout |-> <<"System-", "Standardzielort:", "Zebra_GK420d">>],
      [failed |-> FALSE, stdout |-> <<"Standardziel:", "Brother_QL">>] }

\* what `lpstat -p "Zebra_Technologies_ZTC_GK420d" 2>&1` can do
ProbeOutcomes ==
    { [failed |-> TRUE, stdout |-> <<>>],
      [failed |-> FALSE, stdout |-> <<>>],
      [failed |-> FALSE, stdout |-> <<"printer", DefaultPrinterName, "is idle", "enabled since">>],
      [failed |-> FALSE, stdout |-> <<"printer", DefaultPrinterName, "disabled since">>],
      [failed |-> FALSE, stdout |-> <<"Drucker", "U+201E", DefaultPrinterName, "U+201C", "ist inaktiv">>],
      [failed |-> FALSE, stdout |-> <<"lpstat:", DefaultPrinterName, "does not exist">>] }

\* listPrinters as a function of what the three commands do: the outcomes
\* are drawn, then printer:list is handled once
InitList ==
    /\ store = EmptyRec
    /\ initialized = TRUE
    /\ pinStored = DEFAULT_PIN
    /\ inputs \in [p : ListOutcomes, d : DefaultOutcomes, z : ProbeOutcomes]
    /\ files = EmptyRec
    /\ printOps = <<>>
    /\ logFile = <<>>
    /\ logDir = CurrentLogOnly
    /\ ui = ClosedUi
    /\ tasks = NoTasks
    /\ updater = NewUpdater
    /\ last = [op |-> "none"]
    /\ response = NoResponse

\* what `lpstat -p "name"` can do: fail, or print the line of the printer
StatusOutcomes ==
    {[failed |-> TRUE, stdout |-> <<>>]}
        \cup {[failed |-> FALSE, stdout |-> line] : line \in PrinterLines}

NextList ==
    /\ last.op = "none"
    /\ \/ HandleListPrinters(inputs.p, inputs.d, inputs.z)
       \/ \E out \in StatusOutcomes : HandleGetPrinterStatus(out)

SpecList == InitList /\ [][NextList]_vars

(***************************************************************************)
(* Claims about printer discovery.                                         *)
(***************************************************************************)
\* no line of the output of `lpstat -p` is a printer line
ZeroPrinterLines(p) ==
    p.failed \/ \A i \in 1..Len(p.stdout) :
                    ~StartsWith(p.stdout[i], "printer") /\ ~StartsWith(p.stdout[i], "Drucker")

\* C3: listPrinters never throws and never returns an empty list, whatever
\* the three commands do; when `lpstat -p` yields no printer line, `lpstat -d`
\* is unavailable and the probe for the Zebra printer finds nothing, the
\* result is exactly one entry, 'No printers detected'.
C3_ListNeverEmpty ==
    last.op = "listPrinters" =>
        /\ response.success
        /\ Len(response.data) >= 1
        /\ (ZeroPrinterLines(inputs.p) /\ inputs.d.failed /\ ZebraProbe(inputs.z) = <<>>)
              => response.data = <<NoPrintersDetected>>

\* C3 witness: `lpstat -p` printed nothing, `lpstat -d` failed, the probe
\* answered that the printer does not exist, and the one entry came back
C3_Witness ==
    /\ last.op = "listPrinters"
    /\ inputs.p = [failed |-> FALSE, stdout |-> <<>>]
    /\ inputs.d.failed
    /\ ~inputs.z.failed /\ Includes(inputs.z.stdout, "does not exist")
    /\ response.data = <<NoPrintersDetected>>

\* C4: when `lpstat -p`, `lpstat -d` and the probe all fail, listPrinters
\* returns the single entry 'Error detecting printers'.
C4_TotalFailureIsDiscoveryError ==
    (last.op = "listPrinters" /\ inputs.p.failed /\ inputs.d.failed /\ inputs.z.failed)
        => response.data = <<ErrorDetectingPrinters>>

\* the values of the status enum
StatusEnum == {"idle", "printing", "offline", "disabled", "unknown"}

\* C18: getPrinterStatus applies the phrase rules of listPrinters: for every
\* status line that `lpstat -p` prints for a printer, English or German, it
\* returns a value of the status enum, the one listPrinters gives that printer.
C18_StatusRulesAgree ==
    (last.op = "getPrinterStatus" /\ ~last.failed /\ ParseLine(last.line) # <<>>) =>
        /\ response.data.status \in StatusEnum
        /\ response.data.status = ParseLine(last.line)[1].status

\* a German line that holds the name between U+201E and U+201C
DesignatedQuotes(line) ==
    /\ Len(line) >= 5
    /\ line[1] = "Drucker" /\ line[2] = "U+201E" /\ line[4] = "U+201C"

\* the status that the phrase of a German line stands for
PhraseStatus(line) ==
    IF Includes(line, "ist inaktiv") THEN "idle"
    ELSE IF Includes(line, "druckt") THEN "printing"
    ELSE IF Includes(line, "ist offline") THEN "offline" ELSE "unknown"

\* C19: a German `lpstat -p` line that starts with 'Drucker ', holds the
\* printer name between the quotation marks U+201E and U+201C and contains
\* 'ist inaktiv' yields one printer entry with that name and status 'idle';
\* 'druckt' yields 'printing' and 'ist offline' yields 'offline'.
C19_GermanLineParsed ==
    (last.op = "listPrinters" /\ ~inputs.p.failed) =>
        \A i \in 1..Len(inputs.p.stdout) :
            DesignatedQuotes(inputs.p.stdout[i]) =>
                \E j \in 1..Len(response.data) :
                    /\ response.data[j].name = inputs.p.stdout[i][3]
                    /\ response.data[j].status = PhraseStatus(inputs.p.stdout[i])

\* the default printer that listPrinters detects from what `lpstat -d` did
DetectedDefault(d) == ParseDefault(IF d.failed THEN <<>> ELSE d.stdout, 1)

\* C21: in every list that listPrinters returns, every entry whose name is
\* the default printer detected from `lpstat -d` has isDefault = true, and no
\* entry with another name has, the printer added by the probe included.
C21_DefaultFlagMatches ==
    last.op = "listPrinters" =>
        \A i \in 1..Len(response.data) :
            response.data[i].isDefault = (response.data[i].name = DetectedDefault(inputs.d))

(***************************************************************************)
(* The PIN dialog of the renderer: App.tsx (Hello) and PinDialog.tsx.      *)
(* ui.pin is the PIN typed, a sequence of digits; ui.requests holds the    *)
(* settings:validatePin requests that have no reply yet, ui.timers the     *)
(* setTimeout callbacks that have not run, and ui.validated (history) the  *)
(* PINs for which a reply with isValid = true has arrived.                 *)
(***************************************************************************)
\* at most this many settings:validatePin requests are without a reply
MaxRequests == 2

\* at most this many timers are pending
MaxTimers == 2

\* the PINs that get typed, in full or in part
TypedPins == { <<"1", "2", "3", "4">>, <<"1", "2", "4", "3">>, <<"0", "0", "0", "0">> }

Digits == {"0", "1", "2", "3", "4"}

\* p followed by the digit num is the beginning of one of the PINs typed
IsTyped(p) == \E c \in TypedPins : Len(p) <= Len(c) /\ SubSeq(c, 1, Len(p)) = p

\* sequence s without its i-th element
Remove(s, i) == SubSeq(s, 1, i - 1) \o SubSeq(s, i + 1, Len(s))

\* App.tsx:76-78 handleOpenSettings (menu 'open-settings') and 98-100
\* handleGearClick
OpenPinDialog(op) ==
    /\ ui' = [ui EXCEPT !.showPinDialog = TRUE]
    /\ last' = [op |-> op]
    /\ response' = NoResponse
    /\ UNCHANGED <<settingsVars, inputs, asyncVars, printVars, logVars>>

\* PinDialog.tsx:59-64 handleNumberClick, and the effect of lines 27-31: a
\* PIN of four digits is sent to settings:validatePin
NumberClick(num) ==
    /\ ui.showPinDialog
    /\ Len(ui.pin) < 4
    /\ IsTyped(Append(ui.pin, num))
    /\ Len(ui.pin) = 3 => Len(ui.requests) < MaxRequests
    /\ ui' = [ui EXCEPT !.pin = Append(ui.pin, num), !.error = FALSE,
                        !.requests = IF Len(ui.pin) = 3
                                     THEN Append(ui.requests, Join(Append(ui.pin, num)))
                                     ELSE ui.requests]
    /\ last' = [op |-> "digit"]
    /\ response' = NoResponse
    /\ UNCHANGED <<settingsVars, inputs, asyncVars, printVars, logVars>>

\* PinDialog.tsx:66-69 handleClear
Clear ==
    /\ ui.showPinDialog
    /\ ui' = [ui EXCEPT !.pin = <<>>, !.error = FALSE]
    /\ last' = [op |-> "clear"]
    /\ response' = NoResponse
    /\ UNCHANGED <<settingsVars, inputs, asyncVars, printVars, logVars>>

\* PinDialog.tsx:71-75 handleCancel, App.tsx:110-112 handlePinClose
Cancel ==
    /\ ui.showPinDialog
    /\ ui' = [ui EXCEPT !.pin = <<>>, !.error = FALSE, !.showPinDialog = FALSE]
    /\ last' = [op |-> "cancel"]
    /\ response' = NoResponse
    /\ UNCHANGED <<settingsVars, inputs, asyncVars, printVars, logVars>>

\* the reply handled as if every PIN were valid
onValidateReplyAlways(u, pin, isValid) ==
    [u EXCEPT !.timers = Append(u.timers, [kind |-> "success", pin |-> pin])]

\* PinDialog.tsx:37-48 what validatePin does with the reply to its request
onValidateReply(u, pin, isValid) ==
    IF isValid
    THEN [u EXCEPT !.timers = Append(u.timers, [kind |-> "success", pin |-> pin])]
    ELSE [u EXCEPT !.error = TRUE,
                   !.timers = Append(u.timers, [kind |-> "reset", pin |-> pin])]

\* a settings:validatePin request is handled by the main process
\* (part_004:75-92) and its reply reaches the dialog (PinDialog.tsx:33-57)
ValidateReply(i) ==
    /\ initialized
    /\ i \in 1..Len(ui.requests)
    /\ Len(ui.timers) < MaxTimers
    /\ LET pin == ui.requests[i]
           isValid == validatePin(store, pin, TRUE)
           replied == [ui EXCEPT !.requests = Remove(ui.requests, i),
                                 !.validated = IF isValid THEN ui.validated \cup {pin}
                                               ELSE ui.validated]
       IN  /\ ui' = onValidateReply(replied, pin, isValid)
           /\ response' = Ok([isValid |-> isValid])
           /\ last' = [op |-> "validateReply", pin |-> pin]
    /\ UNCHANGED <<settingsVars, inputs, asyncVars, printVars, logVars>>

\* a timer fires.  PinDialog.tsx:38-41: onSuccess (App.tsx:105-108
\* handlePinSuccess) and the PIN is emptied; the effect of lines 20-25 resets
\* the error mark when the dialog closes.  PinDialog.tsx:44-47: reset
TimerFires(i) ==
    /\ i \in 1..Len(ui.timers)
    /\ LET t == ui.timers[i]
           fired == [ui EXCEPT !.timers = Remove(ui.timers, i)]
       IN  /\ ui' = IF t.kind = "success"
                    THEN [fired EXCEPT !.showPinDialog = FALSE, !.showSettings = TRUE,
                                       !.pin = <<>>,
                                       !.error = IF ui.showPinDialog THEN FALSE ELSE ui.error]
                    ELSE [fired EXCEPT !.pin = <<>>, !.error = FALSE]
           /\ last' = [op |-> "timer", kind |-> t.kind, pin |-> t.pin]
    /\ response' = NoResponse
    /\ UNCHANGED <<settingsVars, inputs, asyncVars, printVars, logVars>>

\* App.tsx:114-116 handleSettingsClose
SettingsClose ==
    /\ ui.showSettings
    /\ ui' = [ui EXCEPT !.showSettings = FALSE]
    /\ last' = [op |-> "settingsClose"]
    /\ response' = NoResponse
    /\ UNCHANGED <<settingsVars, inputs, asyncVars, printVars, logVars>>

\* the stores of the PIN dialog: no PIN stored (the default applies), or 0000
PinStores == {EmptyRec, ("security" :> ("pin" :> "0000"))}

InitPin ==
    /\ store \in PinStores
    /\ initialized = TRUE
    /\ pinStored = PinOf(store)
    /\ inputs = NoInputs
    /\ files = EmptyRec
    /\ printOps = <<>>
    /\ logFile = <<>>
    /\ logDir = CurrentLogOnly
    /\ ui = ClosedUi
    /\ tasks = NoTasks
    /\ updater = NewUpdater
    /\ last = [op |-> "none"]
    /\ response = NoResponse

NextPin ==
    \/ OpenPinDialog("gearClick")
    \/ OpenPinDialog("openSettings")
    \/ \E num \in Digits : NumberClick(num)
    \/ Clear
    \/ Cancel
    \/ \E i \in 1..MaxRequests : ValidateReply(i)
    \/ \E i \in 1..MaxTimers : TimerFires(i)
    \/ SettingsClose

SpecPin == InitPin /\ [][NextPin]_vars

(***************************************************************************)
(* Claims about the PIN dialog.                                            *)
(***************************************************************************)
\* C20: settings are PIN-protected: in every sequence of renderer events
\* (gear click, menu 'open-settings', digit, clear and cancel presses, timer
\* firings, validation replies in any order) the settings modal becomes
\* visible only after a settings:validatePin request for the entered
\* four-digit PIN has returned isValid = true.
C20_SettingsArePinProtected ==
    [][ (ui'.showSettings /\ ~ui.showSettings) =>
            /\ last'.op = "timer" /\ last'.kind = "success"
            /\ last'.pin \in ui.validated
            /\ last'.pin = pinStored
      ]_vars

\* C20 witness: the stored PIN 0000 was typed and validated, its timer has
\* fired, and the modal is visible with the PIN dialog closed
C20_Witness ==
    /\ ui.showSettings
    /\ ~ui.showPinDialog
    /\ last.op = "timer" /\ last.kind = "success" /\ last.pin = "0000"
    /\ pinStored = "0000"

(***************************************************************************)
(* Bridge requests in progress.  A handler registered with ipcMain.handle  *)
(* or ipcMain.on is an async function: it runs until it awaits an          *)
(* operation of the operating system (a read or a write of the settings    *)
(* file, a command) and goes on when that operation has completed; what    *)
(* lies between two such operations is one step.  A request is a task: pc  *)
(* names the operation its handler awaits ("done" once the handler has     *)
(* returned its response) and the other fields are the handler's locals.   *)
(***************************************************************************)
\* at most this many requests arrive
MaxTasks == 2

\* the partial records of the settings:update requests: one field of a
\* subtree, and the record handleSave sends (SettingsModal.tsx:216-229)
BridgeUpdates ==
    { "printer" :> ("name" :> "Brother_QL"),
      "label" :> ("filePath" :> "custom/label.zpl"),
      ("printer" :> [name |-> "Brother_QL", isManualEntry |-> FALSE])
         @@ ("label" :> [filePath |-> "custom/label.zpl", autoUpdateDate |-> FALSE]) }

\* the lp command has not completed
LpPending == [threw |-> FALSE, stdout |-> <<>>, stderr |-> <<>>, message |-> <<>>]

\* a request as its handler is called; `seen` is history: the records the
\* store has held since then
NewTask(kind, arg, pc) ==
    [ kind |-> kind, arg |-> arg, pc |-> pc,
      merged |-> EmptyRec,
      printerName |-> "", labelPath |-> "", labelSettings |-> EmptyRec,
      lp |-> LpPending, payload |-> <<>>,
      seen |-> {store}, response |-> NoResponse ]

\* the requests whose handler has not returned
InProgress == {i \in 1..Len(tasks) : tasks[i].pc # "done"}

\* request i has been received, is of this kind and awaits this operation
Awaits(i, kind, pc) ==
    /\ i \in 1..Len(tasks)
    /\ tasks[i].kind = kind
    /\ tasks[i].pc = pc

\* the store holds a new record: history of the requests in progress
Observe(ts, st) ==
    [i \in 1..Len(ts) |-> IF ts[i].pc # "done"
                          THEN [ts[i] EXCEPT !.seen = @ \cup {st}] ELSE ts[i]]

\* part_004:56-60 and settings.ts:95-97 settings:update is received: update
\* calls getAll, which starts the read of the store
ReceiveUpdate(updates) ==
    /\ Len(tasks) < MaxTasks
    /\ tasks' = Append(tasks, NewTask("update", updates, "getAll"))
    /\ last' = [op |-> "receive", req |-> Len(tasks) + 1]
    /\ response' = NoResponse
    /\ UNCHANGED <<settingsVars, inputs, ui, updater, printVars, logVars>>

\* settings.ts:97-99 the read of the store has completed: the partial record
\* is merged into what was read and the write of the result starts
UpdateRead(i, readOk) ==
    /\ Awaits(i, "update", "getAll")
    /\ tasks' = [tasks EXCEPT ![i].pc = "set",
                              ![i].merged = deepMerge(getAll(store, readOk), tasks[i].arg, 0)]
    /\ last' = [op |-> "getAll", req |-> i]
    /\ response' = NoResponse
    /\ UNCHANGED <<settingsVars, inputs, ui, updater, printVars, logVars>>

\* part_004:94-98 and settings.ts:106-108 settings:reset is received: the
\* write of the defaults starts
ReceiveReset ==
    /\ Len(tasks) < MaxTasks
    /\ tasks' = Append(tasks, [NewTask("reset", EmptyRec, "set") EXCEPT
                                   !.merged = DEFAULT_SETTINGS])
    /\ last' = [op |-> "receive", req |-> Len(tasks) + 1]
    /\ response' = NoResponse
    /\ UNCHANGED <<settingsVars, inputs, ui, updater, printVars, logVars>>

\* settings.ts:99 (and 108) settings.set(record) has completed: the store
\* holds the record, or the write failed, the error is re-thrown (100-103,
\* 109-112) and the handler answers with it (part_004:66-72, 104-109); after
\* a write the handler starts the read of part_004:63 (100)
StoreWrite(i, writeOk) ==
    /\ i \in 1..Len(tasks)
    /\ tasks[i].kind \in {"update", "reset"}
    /\ tasks[i].pc = "set"
    /\ store' = IF writeOk THEN tasks[i].merged ELSE store
    /\ pinStored' = IF writeOk THEN PinOf(tasks[i].merged) ELSE pinStored
    /\ LET t == IF writeOk THEN [tasks[i] EXCEPT !.pc = "getAll2"]
                ELSE [tasks[i] EXCEPT !.pc = "done", !.response = Err("write failed")]
       IN  /\ tasks' = Observe([tasks EXCEPT ![i] = t], store')
           /\ response' = t.response
    /\ last' = [op |-> "set", req |-> i, writeOk |-> writeOk]
    /\ UNCHANGED <<initialized, inputs, ui, updater, printVars, logVars>>

\* part_004:61-64 (99-102) the read of the response has completed: the
\* handler returns {success: true, data: getAll()}
SettingsReturn(i) ==
    /\ i \in 1..Len(tasks)
    /\ tasks[i].kind \in {"update", "reset"}
    /\ tasks[i].pc = "getAll2"
    /\ tasks' = [tasks EXCEPT ![i].pc = "done", ![i].response = Ok(getAll(store, TRUE))]
    /\ response' = Ok(getAll(store, TRUE))
    /\ last' = [op |-> "return", req |-> i]
    /\ UNCHANGED <<settingsVars, inputs, ui, updater, printVars, logVars>>

\* printer-handler.ts:73-78 and printer.ts:203-205 printer:print is
\* received: printLabel calls getPrinter, which starts a read of the store
ReceivePrint(copies) ==
    /\ Len(tasks) < MaxTasks
    /\ tasks' = Append(tasks, NewTask("print", copies, "getPrinter"))
    /\ last' = [op |-> "receive", req |-> Len(tasks) + 1]
    /\ response' = NoResponse
    /\ UNCHANGED <<settingsVars, inputs, ui, updater, printVars, logVars>>

\* printer.ts:205-206 getPrinter has completed; getLabelPath starts a read
PrintGetPrinter(i) ==
    /\ Awaits(i, "print", "getPrinter")
    /\ tasks' = [tasks EXCEPT ![i].pc = "getLabelPath",
                              ![i].printerName = get(store, "printer", TRUE)["name"]]
    /\ last' = [op |-> "getPrinter", req |-> i]
    /\ response' = NoResponse
    /\ UNCHANGED <<settingsVars, inputs, ui, updater, printVars, logVars>>

\* printer.ts:206-210 getLabelPath has completed; get('label') starts a read
PrintGetLabelPath(i) ==
    /\ Awaits(i, "print", "getLabelPath")
    /\ tasks' = [tasks EXCEPT ![i].pc = "get",
                              ![i].labelPath = get(store, "label", TRUE)["filePath"]]
    /\ last' = [op |-> "getLabelPath", req |-> i]
    /\ response' = NoResponse
    /\ UNCHANGED <<settingsVars, inputs, ui, updater, printVars, logVars>>

\* the settings as a printLabel call has read them: the printer name of its
\* first read, the label path of its second and the flag of its third
AsRead(t) ==
    [ printer |-> [name |-> t.printerName, isManualEntry |-> FALSE],
      label   |-> [filePath |-> t.labelPath,
                   autoUpdateDate |-> t.labelSettings["autoUpdateDate"]] ]

\* printer.ts:252-255 the record logged by the catch block names the printer
\* read again at line 254
Relogged(r, st) ==
    IF r.result.success = FALSE /\ r.result.error = "PRINT_ERROR"
    THEN <<[r.ops[1] EXCEPT !.printer = get(st, "printer", TRUE)["name"]]>>
    ELSE r.ops

\* printer.ts:210-229 get('label') has completed: the date of the label is
\* updated when the flag read says so, and the lp command is started when the
\* label file exists; otherwise printLabel returns (216-225, 252-261) and so
\* does the handler (printer-handler.ts:79-83)
PrintGetLabel(i) ==
    /\ Awaits(i, "print", "get")
    /\ LET t == [tasks[i] EXCEPT !.labelSettings = get(store, "label", TRUE)]
           r == printLabel(AsRead(t), files, t.arg, LpPending)
       IN  /\ files' = r.files
           /\ IF r.commands = <<>>
              THEN /\ tasks' = [tasks EXCEPT ![i] = [t EXCEPT !.pc = "done",
                                          !.response = PrintEnvelope(r.result)]]
                   /\ printOps' = Relogged(r, store)
                   /\ response' = PrintEnvelope(r.result)
              ELSE /\ tasks' = [tasks EXCEPT ![i] = [t EXCEPT !.pc = "lp"]]
                   /\ printOps' = printOps
                   /\ response' = NoResponse
    /\ last' = [op |-> "get", req |-> i]
    /\ UNCHANGED <<settingsVars, inputs, ui, updater, logVars>>

\* printer.ts:229-261 the lp command has completed: printLabel returns its
\* result and the handler its envelope (printer-handler.ts:79-83)
PrintLpDone(i, lp) ==
    /\ Awaits(i, "print", "lp")
    /\ LET r == printLabel(AsRead(tasks[i]), files, tasks[i].arg, lp)
       IN  /\ tasks' = [tasks EXCEPT ![i].pc = "done", ![i].lp = lp,
                                     ![i].response = PrintEnvelope(r.result)]
           /\ printOps' = Relogged(r, store)
           /\ response' = PrintEnvelope(r.result)
    /\ last' = [op |-> "lp", req |-> i]
    /\ UNCHANGED <<settingsVars, inputs, ui, updater, files, logVars>>

\* printer-handler.ts:114-119 and printer.ts:264-276 printer:test is
\* received: testPrint writes the test label to the temporary file and starts
\* the lp command
ReceiveTestPrint(printerName) ==
    /\ Len(tasks) < MaxTasks
    /\ tasks' = Append(tasks, NewTask("test", printerName, "lp"))
    /\ files' = (TempPath :> TestContent(printerName)) @@ files
    /\ last' = [op |-> "receive", req |-> Len(tasks) + 1]
    /\ response' = NoResponse
    /\ UNCHANGED <<settingsVars, inputs, ui, updater, printOps, logVars>>

\* printer.ts:275-276 the lp process of a test print runs: it reads the
\* temporary file as it is then, and cannot succeed when there is none
TestLpRuns(i, lp) ==
    /\ Awaits(i, "test", "lp")
    /\ TempPath \notin DOMAIN files => lp.threw
    /\ tasks' = [tasks EXCEPT ![i].pc = "unlink", ![i].lp = lp,
                              ![i].payload = IF TempPath \in DOMAIN files
                                             THEN files[TempPath] ELSE <<>>]
    /\ last' = [op |-> "lp", req |-> i]
    /\ response' = NoResponse
    /\ UNCHANGED <<settingsVars, inputs, ui, updater, printVars, logVars>>

\* printer.ts:276-299 testPrint after the lp command: the temporary file is
\* unlinked, and unlinkSync throws into the catch block when there is no such
\* file; an lp command that failed has thrown before the unlink
testPrintAfterLp(fs, printerName, lp) ==
    IF ~lp.threw /\ TempPath \notin DOMAIN fs
    THEN [ result |-> [success |-> FALSE,
                       message |-> <<"ENOENT: no such file or directory, unlink", TempPath>>,
                       error |-> "TEST_PRINT_ERROR"],
           files |-> fs ]
    ELSE [ result |-> testPrint(fs, printerName, lp).result,
           files |-> IF lp.threw THEN fs ELSE Unlink(fs, TempPath) ]

\* printer.ts:276-299 and printer-handler.ts:120-124 the handler of a test
\* print goes on after the lp command and returns
TestReturn(i) ==
    /\ Awaits(i, "test", "unlink")
    /\ LET r == testPrintAfterLp(files, tasks[i].arg, tasks[i].lp)
       IN  /\ files' = r.files
           /\ tasks' = [tasks EXCEPT ![i].pc = "done",
                                     ![i].response = PrintEnvelope(r.result)]
           /\ response' = PrintEnvelope(r.result)
    /\ last' = [op |-> "return", req |-> i]
    /\ UNCHANGED <<settingsVars, inputs, ui, updater, printOps, logVars>>

\* the settings and label files the requests find: the defaults as written
\* on first run, or with the flag cleared; a label file at each path
BridgeStores ==
    {DEFAULT_SETTINGS, [DEFAULT_SETTINGS EXCEPT !["label"]["autoUpdateDate"] = FALSE]}

BridgeFiles ==
    { [p \in LabelPaths |-> <<"^XA", "01.01.", "^XZ">>],
      [p \in {DefaultLabelPath} |-> <<"^XA", "01.01.", "^XZ">>] }

InitBridge ==
    /\ store \in BridgeStores
    /\ initialized = TRUE
    /\ pinStored = PinOf(store)
    /\ inputs = NoInputs
    /\ files \in BridgeFiles
    /\ printOps = <<>>
    /\ logFile = <<>>
    /\ logDir = CurrentLogOnly
    /\ ui = ClosedUi
    /\ tasks = NoTasks
    /\ updater = NewUpdater
    /\ last = [op |-> "none"]
    /\ response = NoResponse

\* every message of the renderer calls its handler when it arrives, and every
\* operation awaited completes at some time
NextBridge ==
    \/ \E updates \in BridgeUpdates : ReceiveUpdate(updates)
    \/ ReceiveReset
    \/ \E copies \in 1..MaxCopies : ReceivePrint(copies)
    \/ \E printerName \in PrinterNames : ReceiveTestPrint(printerName)
    \/ \E i \in 1..MaxTasks : UpdateRead(i, TRUE)
    \/ \E i \in 1..MaxTasks, writeOk \in BOOLEAN : StoreWrite(i, writeOk)
    \/ \E i \in 1..MaxTasks : SettingsReturn(i)
    \/ \E i \in 1..MaxTasks : PrintGetPrinter(i)
    \/ \E i \in 1..MaxTasks : PrintGetLabelPath(i)
    \/ \E i \in 1..MaxTasks : PrintGetLabel(i)
    \/ \E i \in 1..MaxTasks, lp \in LpOutcomes : PrintLpDone(i, lp)
    \/ \E i \in 1..MaxTasks, lp \in LpOutcomes : TestLpRuns(i, lp)
    \/ \E i \in 1..MaxTasks : TestReturn(i)

SpecBridge == InitBridge /\ [][NextBridge]_vars

(***************************************************************************)
(* Claims about requests in progress.                                      *)
(***************************************************************************)
\* C22: bridge requests are handled one at a time: at no time have two
\* requests been started and not yet answered, so that no step of a request
\* runs while another request awaits its command or its store access.
C22_OneRequestAtATime == Cardinality(InProgress) <= 1

\* the two partial records have no field in common
Disjoint(u1, u2) ==
    \A k \in TopKeys : \A f \in DOMAIN DEFAULT_SETTINGS[k] :
        ~(Named(u1, k, f) /\ Named(u2, k, f))

\* getAll() shows the value the partial record gives to each field it names
Shows(settings, u) ==
    \A k \in DOMAIN u : \A f \in DOMAIN u[k] : settings[k][f] = u[k][f]

\* C24: when two settings:update requests on disjoint fields have both
\* returned success, and no other request has written the store, getAll()
\* shows the new value of each of the two fields, whatever the order of their
\* store reads and writes.
C24_NoLostUpdate ==
    \A i, j \in 1..Len(tasks) :
        (/\ i # j
         /\ tasks[i].kind = "update" /\ tasks[j].kind = "update"
         /\ tasks[i].pc = "done" /\ tasks[j].pc = "done"
         /\ tasks[i].response.success /\ tasks[j].response.success
         /\ Disjoint(tasks[i].arg, tasks[j].arg)
         /\ \A k \in 1..Len(tasks) : k \notin {i, j} => tasks[k].kind \notin {"update", "reset"})
            => /\ Shows(getAll(store, TRUE), tasks[i].arg)
               /\ Shows(getAll(store, TRUE), tasks[j].arg)

\* C25: the printer name, the label path and the autoUpdateDate flag a
\* printLabel call acts on are those of one record that the store held at
\* some instant of the call, also while a settings:update or settings:reset
\* request is in progress.
C25_OneSettingsSnapshot ==
    \A i \in 1..Len(tasks) :
        (tasks[i].kind = "print" /\ tasks[i].pc \in {"lp", "done"}) =>
            \E st \in tasks[i].seen :
                /\ get(st, "printer", TRUE)["name"] = tasks[i].printerName
                /\ get(st, "label", TRUE)["filePath"] = tasks[i].labelPath
                /\ get(st, "label", TRUE)["autoUpdateDate"]
                      = tasks[i].labelSettings["autoUpdateDate"]

\* C26: in every interleaving of testPrint calls the lp command of a call
\* reads the test label written by that call, and a call whose lp command
\* succeeded returns success = true.
C26_TestPrintsDoNotInterfere ==
    \A i \in 1..Len(tasks) :
        tasks[i].kind = "test" =>
            /\ tasks[i].pc \in {"unlink", "done"} =>
                  tasks[i].payload = TestContent(tasks[i].arg)
            /\ (/\ tasks[i].pc = "done"
                /\ ~tasks[i].lp.threw
                /\ ~StderrIsFailure(tasks[i].lp.stderr)) => tasks[i].response.success

(***************************************************************************)
(* Updates: UpdaterService (updater.ts), the updater:check handler         *)
(* (part_003:27-67), the window of main.ts and the update section of the   *)
(* settings modal.  A check is a call of autoUpdater.checkForUpdatesAnd-   *)
(* Notify: autoUpdater emits 'checking-for-update', then one of 'update-   *)
(* not-available', 'update-available' and 'error', and the promise of the  *)
(* call settles.  A status sent to the renderer waits in ui.inbox until    *)
(* the renderer handles it.                                                *)
(***************************************************************************)
\* main.ts:63-107, 138-142 at most this many windows are created, the
\* window of the start included
MaxWindows == 2

\* at most this many checks are in progress
MaxChecks == 2

\* at most this many messages to the renderer wait to be handled
MaxInbox == 1

\* SettingsModal.tsx:43-64 the renderer of a new window: the window is not
\* shown yet, the settings modal is closed
NewWindow(n) ==
    [window |-> TRUE, ready |-> FALSE, isOpen |-> FALSE, updateStatus |-> NewStatus,
     inbox |-> <<>>, windows |-> n]

\* updater.ts:46-111 what a handler of setupEventHandlers does to the status
onEvent(status, event) ==
    CASE event = "checking-for-update" -> [status EXCEPT !.checking = TRUE, !.error = FALSE]
      [] event = "update-available"    -> [status EXCEPT !.checking = FALSE, !.available = TRUE]
      [] event = "update-not-available" -> [status EXCEPT !.checking = FALSE, !.available = FALSE]
      [] event = "error" -> [status EXCEPT !.checking = FALSE, !.downloading = FALSE,
                                           !.error = TRUE]
      [] event = "download-progress"   -> [status EXCEPT !.downloading = TRUE]
      [] event = "update-downloaded"   -> [status EXCEPT !.downloading = FALSE,
                                                         !.downloaded = TRUE]

\* autoUpdater emits an event: every handler registered for it runs
Emit(u, event) ==
    [u EXCEPT !.status = IF u.listeners > 0 THEN onEvent(@, event) ELSE @]

\* updater.ts:120-124 sendStatusUpdate sends when there is a window and it is
\* not destroyed
CanSend(u) == u.mainWindow = "shown"

\* the renderer's inbox after the status has been sent, if it has
Sent(u, sends) ==
    IF sends /\ CanSend(u) THEN [ui EXCEPT !.inbox = Append(@, u.status)] ELSE ui

\* room for a status in the inbox, when one will be sent
Room(u) == CanSend(u) => Len(ui.inbox) < MaxInbox

\* updater.ts:132-136 checkForUpdates up to its await: a check is started
\* unless an update is downloading or downloaded
checkForUpdates(u, origin) ==
    IF ~u.status.downloading /\ ~u.status.downloaded
    THEN [u EXCEPT !.running = Append(@, [origin |-> origin, phase |-> "called"])]
    ELSE u

\* updater.ts:32-43 initialize: handlers are registered for every event, an
\* interval timer is started and kept in updateCheckInterval, and a check is
\* started
initialize(u) ==
    LET id == u.listeners + 1
    IN  checkForUpdates([u EXCEPT !.mainWindow = "shown",
                                  !.listeners = @ + 1,
                                  !.intervals = @ \cup {id},
                                  !.updateCheckInterval = id],
                        "initialize")

\* updater.ts:158-163 cleanup: the interval kept in updateCheckInterval is
\* cleared
cleanup(u) ==
    IF u.updateCheckInterval # 0
    THEN [u EXCEPT !.intervals = @ \ {u.updateCheckInterval}, !.updateCheckInterval = 0]
    ELSE u

\* main.ts:92-107 'ready-to-show' of the window: it is shown, and the updater
\* service is initialized when NODE_ENV is 'production'
ReadyToShow ==
    /\ ~updater.cleaned
    /\ ui.window /\ ~ui.ready
    /\ Len(updater.running) < MaxChecks
    /\ ui' = [ui EXCEPT !.ready = TRUE]
    /\ updater' = IF inputs.production THEN initialize(updater) ELSE updater
    /\ last' = [op |-> "ready-to-show"]
    /\ response' = NoResponse
    /\ UNCHANGED <<settingsVars, inputs, tasks, printVars, logVars>>

\* main.ts:109-112 the window is closed: its renderer is gone and the window
\* object the updater service holds is destroyed
WindowClosed ==
    /\ ~updater.cleaned
    /\ ui.window /\ ui.ready
    /\ ui' = [ui EXCEPT !.window = FALSE, !.isOpen = FALSE, !.inbox = <<>>]
    /\ updater' = IF updater.mainWindow = "shown"
                  THEN [updater EXCEPT !.mainWindow = "destroyed"] ELSE updater
    /\ last' = [op |-> "closed"]
    /\ response' = NoResponse
    /\ UNCHANGED <<settingsVars, inputs, tasks, printVars, logVars>>

\* main.ts:138-142 'activate' without a window: a window is created
Activate ==
    /\ ~updater.cleaned
    /\ ~ui.window
    /\ ui.windows < MaxWindows
    /\ ui' = NewWindow(ui.windows + 1)
    /\ last' = [op |-> "activate"]
    /\ response' = NoResponse
    /\ UNCHANGED <<settingsVars, inputs, tasks, updater, printVars, logVars>>

\* updater.ts:114-118 an interval timer fires: checkForUpdates is called
TimerTick(id) ==
    /\ ~updater.cleaned
    /\ id \in updater.intervals
    /\ Len(updater.running) < MaxChecks
    /\ updater' = checkForUpdates(updater, "timer")
    /\ last' = [op |-> "timer", started |-> updater'.running # updater.running,
                inProgress |-> Len(updater.running)]
    /\ response' = NoResponse
    /\ UNCHANGED <<settingsVars, inputs, ui, tasks, printVars, logVars>>

\* SettingsModal.tsx:66-73, 127-136 the settings modal opens: it asks for the
\* status (updater:get-status, part_003:55-66), which is sent back as it is
OpenModal ==
    /\ ~updater.cleaned
    /\ ui.window /\ ui.ready /\ ~ui.isOpen
    /\ Len(ui.inbox) < MaxInbox
    /\ ui' = [ui EXCEPT !.isOpen = TRUE, !.inbox = Append(@, updater.status)]
    /\ last' = [op |-> "open"]
    /\ response' = [success |-> TRUE, data |-> updater.status]
    /\ UNCHANGED <<settingsVars, inputs, tasks, updater, printVars, logVars>>

\* App.tsx:114-116 the settings modal is closed
CloseModal ==
    /\ ~updater.cleaned
    /\ ui.window /\ ui.isOpen
    /\ ui' = [ui EXCEPT !.isOpen = FALSE]
    /\ last' = [op |-> "close"]
    /\ response' = NoResponse
    /\ UNCHANGED <<settingsVars, inputs, tasks, updater, printVars, logVars>>

\* SettingsModal.tsx:425-429 the button is there while no update is
\* downloaded, and enabled while the modal shows neither checking nor
\* downloading
CheckButtonEnabled(status) ==
    ~status.downloaded /\ ~status.checking /\ ~status.downloading

\* SettingsModal.tsx:151-156 and part_003:31-34 'Check for Updates' is
\* pressed: the modal sets its checking flag and invokes updater:check, whose
\* handler calls checkForUpdates
ClickCheckUpdate ==
    /\ ~updater.cleaned
    /\ ui.window /\ ui.isOpen
    /\ CheckButtonEnabled(ui.updateStatus)
    /\ Len(updater.running) < MaxChecks
    /\ ui' = [ui EXCEPT !.updateStatus = [@ EXCEPT !.checking = TRUE, !.error = FALSE]]
    /\ updater' = checkForUpdates(updater, "updater:check")
    /\ last' = [op |-> "click", started |-> updater'.running # updater.running]
    /\ response' = IF updater'.running # updater.running THEN NoResponse
                   ELSE [success |-> TRUE]
    /\ UNCHANGED <<settingsVars, inputs, tasks, printVars, logVars>>

\* SettingsModal.tsx:156-170 the modal handles the response (or the
\* rejection) of updater:check
onCheckResponse(status, reply) ==
    IF ~reply.success THEN [status EXCEPT !.checking = FALSE, !.error = TRUE] ELSE status

\* updater.ts:46-50 a check in progress makes autoUpdater emit
\* 'checking-for-update'
CheckEmitsChecking(i) ==
    /\ ~updater.cleaned
    /\ i \in 1..Len(updater.running)
    /\ updater.running[i].phase = "called"
    /\ Room(updater)
    /\ updater' = [Emit(updater, "checking-for-update") EXCEPT
                       !.running[i].phase = "checking"]
    /\ ui' = Sent(updater', updater.listeners > 0)
    /\ last' = [op |-> "event", event |-> "checking-for-update",
                statusUpdates |-> updater.listeners]
    /\ response' = NoResponse
    /\ UNCHANGED <<settingsVars, inputs, tasks, printVars, logVars>>

\* the outcomes of a check
CheckOutcomes == {"update-not-available", "update-available", "error"}

\* updater.ts:52-84, 132-146 and part_003:31-42 a check ends: autoUpdater
\* emits the event of its outcome and the promise settles.  After 'update-
\* available' the download starts (autoDownload, updater.ts:36); after
\* 'error' the promise rejects and the catch block of checkForUpdates sets
\* and sends the status.  checkForUpdates returns in every case, so the
\* handler of updater:check answers {success: true}.
CheckEnds(i, outcome) ==
    /\ ~updater.cleaned
    /\ i \in 1..Len(updater.running)
    /\ updater.running[i].phase = "checking"
    /\ Room(updater)
    /\ LET u1 == Emit(updater, outcome)
           u2 == IF outcome = "error"
                 THEN [u1 EXCEPT !.status = [@ EXCEPT !.checking = FALSE, !.error = TRUE]]
                 ELSE u1
           u3 == [u2 EXCEPT !.running = Remove(@, i),
                            !.download = IF outcome = "update-available" /\ @ = "none"
                                         THEN "running" ELSE @]
           reply == [success |-> TRUE]
           answered == updater.running[i].origin = "updater:check"
           sent == Sent(u3, updater.listeners > 0 \/ outcome = "error")
       IN  /\ updater' = u3
           /\ ui' = IF answered /\ ui.window
                    THEN [sent EXCEPT !.updateStatus = onCheckResponse(@, reply)]
                    ELSE sent
           /\ response' = IF answered THEN reply ELSE NoResponse
           /\ last' = [op |-> "event", event |-> outcome,
                       statusUpdates |-> updater.listeners]
    /\ UNCHANGED <<settingsVars, inputs, tasks, printVars, logVars>>

\* updater.ts:86-111 the download of an update: 'download-progress', and
\* 'update-downloaded' at its end
DownloadEvent(event) ==
    /\ ~updater.cleaned
    /\ updater.download = "running"
    /\ event \in {"download-progress", "update-downloaded"}
    /\ Room(updater)
    /\ updater' = [Emit(updater, event) EXCEPT
                       !.download = IF event = "update-downloaded" THEN "done" ELSE @]
    /\ ui' = Sent(updater', updater.listeners > 0)
    /\ last' = [op |-> "event", event |-> event, statusUpdates |-> updater.listeners]
    /\ response' = NoResponse
    /\ UNCHANGED <<settingsVars, inputs, tasks, printVars, logVars>>

\* SettingsModal.tsx:75-87 the renderer handles a status sent to it: the
\* status of the modal is replaced
Deliver ==
    /\ ~updater.cleaned
    /\ ui.window
    /\ ui.inbox # <<>>
    /\ ui' = [ui EXCEPT !.updateStatus = Head(ui.inbox), !.inbox = Tail(@)]
    /\ last' = [op |-> "update-status"]
    /\ response' = NoResponse
    /\ UNCHANGED <<settingsVars, inputs, tasks, updater, printVars, logVars>>

\* main.ts:150-166 'before-quit': the updater service is cleaned up and the
\* application quits
BeforeQuit ==
    /\ ~updater.cleaned
    /\ updater' = [cleanup(updater) EXCEPT !.cleaned = TRUE]
    /\ ui' = [ui EXCEPT !.window = FALSE, !.isOpen = FALSE, !.inbox = <<>>]
    /\ last' = [op |-> "before-quit"]
    /\ response' = NoResponse
    /\ UNCHANGED <<settingsVars, inputs, tasks, printVars, logVars>>

\* main.ts:127-136 the application has started and created its window; it
\* runs in production or not (NODE_ENV)
InitUpdater ==
    /\ store = DEFAULT_SETTINGS
    /\ initialized = TRUE
    /\ pinStored = DEFAULT_PIN
    /\ inputs \in {[production |-> b] : b \in BOOLEAN}
    /\ files = EmptyRec
    /\ printOps = <<>>
    /\ logFile = <<>>
    /\ logDir = CurrentLogOnly
    /\ ui = NewWindow(1)
    /\ tasks = NoTasks
    /\ updater = NewUpdater
    /\ last = [op |-> "none"]
    /\ response = NoResponse

NextUpdater ==
    \/ ReadyToShow
    \/ WindowClosed
    \/ Activate
    \/ \E id \in 1..MaxWindows : TimerTick(id)
    \/ OpenModal
    \/ CloseModal
    \/ ClickCheckUpdate
    \/ \E i \in 1..MaxChecks : CheckEmitsChecking(i)
    \/ \E i \in 1..MaxChecks, outcome \in CheckOutcomes : CheckEnds(i, outcome)
    \/ \E event \in {"download-progress", "update-downloaded"} : DownloadEvent(event)
    \/ Deliver
    \/ BeforeQuit

SpecUpdater == InitUpdater /\ [][NextUpdater]_vars

\* what runs in the main process and the delivery of messages go on: a check
\* that was started emits its events and ends (however often the inbox is full
\* in between), and the renderer handles what was sent to it.  What the user
\* does, the timers and the end of a download are not forced.
FairUpdater ==
    /\ SF_vars(\E i \in 1..MaxChecks : CheckEmitsChecking(i))
    /\ SF_vars(\E i \in 1..MaxChecks, outcome \in CheckOutcomes : CheckEnds(i, outcome))
    /\ WF_vars(Deliver)

SpecUpdaterFair == SpecUpdater /\ FairUpdater

(***************************************************************************)
(* Claims about timers and updates.                                        *)
(***************************************************************************)
\* C23: timer-driven work does not overlap itself: when the hourly timer
\* starts an update check, no check started before (by a timer, by
\* initialize or by updater:check) is still in progress.  (A rotation check
\* is one synchronous call, part_005:64-104, and one step of CheckRotation.)
C23_TimerCheckDoesNotOverlap ==
    (last.op = "timer" /\ last.started) => last.inProgress = 0

\* C29: whenever the settings modal shows its checking flag, the flag is
\* false again at some later time, or the window is gone: the button does not
\* stay in 'Checking...' forever.
C29_CheckingEnds ==
    [](ui.updateStatus.checking => <>(~ui.updateStatus.checking \/ ~ui.window))

\* C30: at any time at most one periodic update-check interval is active,
\* every autoUpdater event updates the status once, and after cleanup() no
\* interval is active, for every sequence of initialize calls.
C30_OneIntervalOneUpdate ==
    /\ Cardinality(updater.intervals) <= 1
    /\ (last.op = "event" /\ updater.listeners > 0) => last.statusUpdates = 1
    /\ updater.cleaned => updater.intervals = {}

====
